---- MODULE Spec2Model ----
(***************************************************************************)
(* The CursorScript language server (src/extension.js, server part):       *)
(* the per-document AST cache and diagnostics publication, the symbol      *)
(* extractor, the completion / definition queries and the formatter; and   *)
(* the extension host (client part): the run-file command, the background  *)
(* tag check and the parallel download of the runtime binary.              *)
(*                                                                         *)
(* Text is a sequence of one-character strings; a JavaScript offset o      *)
(* (0-based) is the number of characters before the cursor, so             *)
(* text.slice(0, o) is SubSeq(text, 1, o).  An optional value (undefined   *)
(* or v) is a sequence of length 0 or 1.                                   *)
(***************************************************************************)
EXTENDS Integers, Sequences, FiniteSets, TLC

VARIABLES
    documents,   \* TextDocuments manager: uri -> text of the open documents
    astCache,    \* Map uri -> last successfully parsed Program
    published,   \* host side: uri -> diagnostics of the last publication
    sent,        \* notifications sent by the handler that ran last
    lastOp,      \* the request the last handler served
    reply,       \* what that handler returned
    lastGood,    \* history: uri -> Program of the latest successful parse
    platform,    \* process.platform of the extension host
    storage,     \* the global storage directory: binaries, archive, config
    runs,        \* the invocations of cursorScript.runFile, each at its await
    terminal,    \* the texts sent to the "CursorScript" terminal
    tagSync      \* the background syncLatestTag of activate

serverVars ==
    <<documents, astCache, published, sent, lastOp, reply, lastGood>>
hostVars == <<platform, storage, runs, terminal, tagSync>>
vars == <<serverVars, hostVars>>

----------------------------------------------------------------------------
(* Strings *)

Lower == {"a", "b", "c", "d", "e", "f", "g", "h", "i", "j", "k", "l", "m",
          "n", "o", "p", "q", "r", "s", "t", "u", "v", "w", "x", "y", "z"}
Upper == {"A", "B", "C", "D", "E", "F", "G", "H", "I", "J", "K", "L", "M",
          "N", "O", "P", "Q", "R", "S", "T", "U", "V", "W", "X", "Y", "Z"}
Digits == {"0", "1", "2", "3", "4", "5", "6", "7", "8", "9"}

\* the character class [a-zA-Z0-9_$]
WordChars == Lower \cup Upper \cup Digits \cup {"_", "$"}

\* the character class \s (and what String.prototype.trim removes)
SpaceChars == {" ", "\t", "\n", "\r"}

Max(a, b) == IF a >= b THEN a ELSE b

\* text.slice(from, to) with 0-based from (inclusive) and to (exclusive)
Slice(text, from, to) == SubSeq(text, from + 1, to)

\* s.includes(pat)
Includes(s, pat) ==
    \E i \in 0..(Len(s) - Len(pat)) : Slice(s, i, i + Len(pat)) = pat

\* s.startsWith(pat), s.endsWith(pat)
StartsWith(s, pat) == Len(s) >= Len(pat) /\ Slice(s, 0, Len(pat)) = pat
EndsWith(s, pat) ==
    Len(s) >= Len(pat) /\ Slice(s, Len(s) - Len(pat), Len(s)) = pat

\* parts.join(sep)
RECURSIVE Join(_, _)
Join(parts, sep) ==
    IF parts = <<>> THEN <<>>
    ELSE IF Len(parts) = 1 THEN parts[1]
    ELSE parts[1] \o sep \o Join(Tail(parts), sep)

\* the length of the longest run of characters of class cls ending right
\* before 0-based offset `to` of s
RECURSIVE RunBefore(_, _, _)
RunBefore(s, to, cls) ==
    IF to >= 1 /\ s[to] \in cls THEN 1 + RunBefore(s, to - 1, cls) ELSE 0

\* the length of the longest run of characters of class cls starting at
\* 0-based offset `from` of s
RECURSIVE RunFrom(_, _, _)
RunFrom(s, from, cls) ==
    IF from < Len(s) /\ s[from + 1] \in cls
    THEN 1 + RunFrom(s, from + 1, cls) ELSE 0

DigitValue(c) == CHOOSE n \in 0..9 : ToString(n) = c

\* parseInt of a non-empty string of decimal digits
RECURSIVE ParseInt(_)
ParseInt(ds) ==
    IF ds = <<>> THEN 0
    ELSE 10 * ParseInt(SubSeq(ds, 1, Len(ds) - 1)) + DigitValue(ds[Len(ds)])

----------------------------------------------------------------------------
(* TextDocument positions.  Lines are separated by "\n". *)

\* the 0-based line of offset o   (document.positionAt(o).line)
LineOf(text, o) == Cardinality({i \in 1..o : text[i] = "\n"})

\* document.offsetAt({line: LineOf(text, o), character: 0})
LineStartOffset(text, o) ==
    LET nl == {i \in 1..o : text[i] = "\n"}
    IN  IF nl = {} THEN 0 ELSE CHOOSE i \in nl : \A j \in nl : j <= i

----------------------------------------------------------------------------
(* String literals of the source, as character sequences *)

S_constant == <<"c", "o", "n", "s", "t", "a", "n", "t">>
S_variable == <<"v", "a", "r", "i", "a", "b", "l", "e">>
S_number == <<":", " ", "n", "u", "m", "b", "e", "r">>
S_string == <<":", " ", "s", "t", "r", "i", "n", "g">>
S_array == <<":", " ", "a", "r", "r", "a", "y">>
S_object == <<":", " ", "o", "b", "j", "e", "c", "t">>
S_lambda == <<":", " ", "f", "n", "(">>
S_boolean == <<":", " ", "b", "o", "o", "l", "e", "a", "n">>
S_null == <<":", " ", "n", "u", "l", "l">>
S_call == <<":", " ", "(", "r", "e", "s", "u", "l", "t", " ", "o", "f", " ", "c", "a", "l", "l", ")">>
S_propertyOf == <<"(", "p", "r", "o", "p", "e", "r", "t", "y", " ", "o", "f", " ">>
S_parameterOf == <<"(", "p", "a", "r", "a", "m", "e", "t", "e", "r", " ", "o", "f", " ">>
S_importedFrom == <<"(", "i", "m", "p", "o", "r", "t", "e", "d", " ", "f", "r", "o", "m", " ", "\"">>
S_quoteClose == <<"\"", ")">>
S_fn == <<"f", "n", " ">>
S_open == <<"(">>
S_close == <<")">>
S_commaSpace == <<",", " ">>
S_true == <<"t", "r", "u", "e">>
S_false == <<"f", "a", "l", "s", "e">>
S_nullId == <<"n", "u", "l", "l">>
S_slashes == <<"/", "/">>

\* names used by the catalog and by the programs below
N_Window == <<"W", "i", "n", "d", "o", "w">>
N_create == <<"c", "r", "e", "a", "t", "e">>
N_clear == <<"c", "l", "e", "a", "r">>
N_print == <<"p", "r", "i", "n", "t">>
N_add == <<"a", "d", "d">>
N_a == <<"a">>
N_b == <<"b">>
N_x == <<"x">>
N_y == <<"y">>
N_z == <<"z">>
N_k == <<"k">>
N_m == <<"m">>
N_c == <<"c">>
N_lib == <<"l", "i", "b">>
D_Window == <<"(", "n", "a", "m", "e", "s", "p", "a", "c", "e", " ", "W", "i", "n", "d", "o", "w", ")">>
D_create == <<"W", "i", "n", "d", "o", "w", ".", "c", "r", "e", "a", "t", "e", "(", "w", "i", "d", "t", "h", ",", " ", "h", "e", "i", "g", "h", "t", ",", " ", "t", "i", "t", "l", "e", ")">>
D_clear == <<"W", "i", "n", "d", "o", "w", ".", "c", "l", "e", "a", "r", "(", "c", "o", "l", "o", "r", ")">>
D_print == <<"p", "r", "i", "n", "t", "(", ".", ".", ".", "a", "r", "g", "s", ")">>
Doc_print == <<"P", "r", "i", "n", "t", "s", " ", "i", "t", "s", " ", "a", "r", "g", "u", "m", "e", "n", "t", "s", ".">>
Doc_Window == <<"N", "a", "t", "i", "v", "e", " ", "w", "i", "n", "d", "o", "w", " ", "l", "i", "b", "r", "a", "r", "y", ".">>

----------------------------------------------------------------------------
(* The global catalog.  ./globalSymbols is generated and not part of the   *)
(* sources at hand: its content is taken from the specification (a         *)
(* namespace Window with members create and clear, and a function).        *)

Member(name, kind, detail, documentation) ==
    [name |-> name, kind |-> kind, detail |-> detail,
     documentation |-> documentation, insertText |-> <<>>]

AUTO_GLOBAL_SYMBOLS ==
    << [name |-> N_Window, kind |-> "Module", detail |-> D_Window,
        documentation |-> <<Doc_Window>>, insertText |-> <<>>,
        members |-> << << Member(N_create, "Method", D_create, <<>>),
                          Member(N_clear, "Method", D_clear, <<>>) >> >>],
       [name |-> N_print, kind |-> "Function", detail |-> D_print,
        documentation |-> <<Doc_print>>, insertText |-> <<>>,
        members |-> <<>>] >>

\* AUTO_GLOBAL_SYMBOLS.map((as) => ({...as, line: 0, column: 0, members}))
GLOBAL_SYMBOLS ==
    [i \in 1..Len(AUTO_GLOBAL_SYMBOLS) |->
        LET as == AUTO_GLOBAL_SYMBOLS[i]
        IN  [name |-> as.name, kind |-> as.kind, detail |-> as.detail,
             documentation |-> as.documentation,
             insertText |-> as.insertText,
             line |-> 0, column |-> 0, members |-> as.members]]

----------------------------------------------------------------------------
(* The symbol extractor *)

\* a locally declared symbol; documentation and insertText are undefined
LocalSymbol(name, kind, detail, line, column, members) ==
    [name |-> name, kind |-> kind, detail |-> detail,
     documentation |-> <<>>, insertText |-> <<>>,
     line |-> line, column |-> column, members |-> members]

\* mutant: the keys of nested object values are members too
RECURSIVE PropertyMembers_Flattened(_, _)
PropertyMembers_Flattened(obj, identifier) ==
    IF obj.properties = <<>> THEN <<>>
    ELSE LET prop == Head(obj.properties)
         IN  << [name |-> prop.key, kind |-> "Property",
                 detail |-> S_propertyOf \o identifier \o S_close,
                 documentation |-> <<>>, insertText |-> <<>>] >>
             \o (IF prop.value.kind = "ObjectLiteral"
                 THEN PropertyMembers_Flattened(prop.value, identifier)
                 ELSE <<>>)
             \o PropertyMembers_Flattened(
                    [obj EXCEPT !.properties = Tail(obj.properties)],
                    identifier)

\* the members of an object literal: one Property per key
PropertyMembers(obj, identifier) ==
    [i \in 1..Len(obj.properties) |->
        [name |-> obj.properties[i].key, kind |-> "Property",
         detail |-> S_propertyOf \o identifier \o S_close,
         documentation |-> <<>>, insertText |-> <<>>]]

\* the switch on varDecl.value.kind: what is appended to typeHint
TypeSuffix(value) ==
    CASE value.kind = "NumericLiteral" -> S_number
      [] value.kind = "StringLiteral" -> S_string
      [] value.kind = "ArrayLiteral" -> S_array
      [] value.kind = "ObjectLiteral" -> S_object
      [] value.kind = "LambdaExpr" ->
            S_lambda \o Join(value.parameters, S_commaSpace) \o S_close
      [] value.kind = "Identifier" ->
            IF value.symbol = S_true \/ value.symbol = S_false THEN S_boolean
            ELSE IF value.symbol = S_nullId THEN S_null
            ELSE <<>>
      [] value.kind = "CallExpr" -> S_call
      [] OTHER -> <<>>

VarDeclSymbol(varDecl) ==
    LET hasValue == "value" \in DOMAIN varDecl
        members ==
            IF hasValue /\ varDecl.value.kind = "ObjectLiteral"
            THEN PropertyMembers(varDecl.value, varDecl.identifier)
            ELSE <<>>
        typeHint ==
            (IF varDecl.constant THEN S_constant ELSE S_variable)
            \o (IF hasValue THEN TypeSuffix(varDecl.value) ELSE <<>>)
    IN  LocalSymbol(varDecl.identifier,
                    IF varDecl.constant THEN "Constant" ELSE "Variable",
                    S_open \o typeHint \o S_close,
                    varDecl.line, varDecl.column,
                    IF Len(members) > 0 THEN <<members>> ELSE <<>>)

\* mutant: the parameters are pushed before the function itself
FunctionSymbols_ParametersFirst(fnDecl) ==
    [i \in 1..Len(fnDecl.parameters) |->
          LocalSymbol(fnDecl.parameters[i], "Variable",
                      S_parameterOf \o fnDecl.name \o S_close,
                      fnDecl.line, fnDecl.column, <<>>)]
    \o << LocalSymbol(fnDecl.name, "Function",
                      S_fn \o fnDecl.name \o S_open
                           \o Join(fnDecl.parameters, S_commaSpace) \o S_close,
                      fnDecl.line, fnDecl.column, <<>>) >>

FunctionSymbols(fnDecl) ==
    << LocalSymbol(fnDecl.name, "Function",
                   S_fn \o fnDecl.name \o S_open
                        \o Join(fnDecl.parameters, S_commaSpace) \o S_close,
                   fnDecl.line, fnDecl.column, <<>>) >>
    \o [i \in 1..Len(fnDecl.parameters) |->
          LocalSymbol(fnDecl.parameters[i], "Variable",
                      S_parameterOf \o fnDecl.name \o S_close,
                      fnDecl.line, fnDecl.column, <<>>)]

ImportSymbols(importDecl) ==
    [i \in 1..Len(importDecl.specifiers) |->
        LocalSymbol(importDecl.specifiers[i], "Module",
                    S_importedFrom \o importDecl.source \o S_quoteClose,
                    importDecl.line, importDecl.column, <<>>)]

\* mutant: the generic "body" rule also applies to function declarations,
\* whose body is then walked twice
RECURSIVE traverse_BodyTwice(_)
traverse_BodyTwice(stmts) ==
    IF stmts = <<>> THEN <<>>
    ELSE
      LET stmt == Head(stmts)
          own ==
            IF stmt.kind = "VarDeclaration" THEN <<VarDeclSymbol(stmt)>>
            ELSE IF stmt.kind = "FunctionDeclaration"
            THEN FunctionSymbols(stmt)
                 \o (IF "body" \in DOMAIN stmt
                     THEN traverse_BodyTwice(stmt.body) ELSE <<>>)
            ELSE IF stmt.kind = "ImportDeclaration" THEN ImportSymbols(stmt)
            ELSE <<>>
          inBody ==
            IF "body" \in DOMAIN stmt
            THEN traverse_BodyTwice(stmt.body) ELSE <<>>
          inThen ==
            IF "thenBranch" \in DOMAIN stmt
            THEN traverse_BodyTwice(stmt.thenBranch) ELSE <<>>
          inElse ==
            IF "elseBranch" \in DOMAIN stmt
            THEN traverse_BodyTwice(stmt.elseBranch) ELSE <<>>
      IN  own \o inBody \o inThen \o inElse \o traverse_BodyTwice(Tail(stmts))

\* traverse(stmts): the symbols pushed while walking stmts, in push order
RECURSIVE traverse(_)
traverse(stmts) ==
    IF stmts = <<>> THEN <<>>
    ELSE
      LET stmt == Head(stmts)
          own ==
            IF stmt.kind = "VarDeclaration" THEN <<VarDeclSymbol(stmt)>>
            ELSE IF stmt.kind = "FunctionDeclaration"
            THEN FunctionSymbols(stmt)
                 \o (IF "body" \in DOMAIN stmt THEN traverse(stmt.body)
                     ELSE <<>>)
            ELSE IF stmt.kind = "ImportDeclaration" THEN ImportSymbols(stmt)
            ELSE <<>>
          inBody ==
            IF "body" \in DOMAIN stmt /\ stmt.kind # "FunctionDeclaration"
            THEN traverse(stmt.body) ELSE <<>>
          inThen ==
            IF "thenBranch" \in DOMAIN stmt THEN traverse(stmt.thenBranch)
            ELSE <<>>
          inElse ==
            IF "elseBranch" \in DOMAIN stmt THEN traverse(stmt.elseBranch)
            ELSE <<>>
      IN  own \o inBody \o inThen \o inElse \o traverse(Tail(stmts))

getSymbolsInProgram(program) == traverse(program.body)

\* array.find(s => s.name === word): undefined or the first match
Find(symbols, word) ==
    LET hits == {i \in 1..Len(symbols) : symbols[i].name = word}
    IN  IF hits = {} THEN <<>>
        ELSE << symbols[CHOOSE i \in hits : \A j \in hits : i <= j] >>

\* mutant: the catalog is searched before the locals
Resolve_GlobalsFirst(localSymbols, word) ==
    IF Find(GLOBAL_SYMBOLS, word) # <<>> THEN Find(GLOBAL_SYMBOLS, word)
    ELSE Find(localSymbols, word)

\* localSymbols.find(...) || GLOBAL_SYMBOLS.find(...)
Resolve(localSymbols, word) ==
    IF Find(localSymbols, word) # <<>> THEN Find(localSymbols, word)
    ELSE Find(GLOBAL_SYMBOLS, word)

----------------------------------------------------------------------------
(* Maps (astCache, the documents of the TextDocuments manager) *)

MapSet(map, key, value) == (key :> value) @@ map
MapDelete(map, key) == [k \in DOMAIN map \ {key} |-> map[k]]
EmptyMap == [k \in {} |-> {}]

----------------------------------------------------------------------------
(* validateTextDocument *)

\* err.toString().match(/:(\d+):(\d+)/): undefined, or the two digit runs
\* of the leftmost match
ErrorPosition(message) ==
    LET Digs(i) == RunFrom(message, i, Digits)
        Hit(i) ==
            /\ message[i + 1] = ":"
            /\ Digs(i + 1) >= 1
            /\ i + 1 + Digs(i + 1) < Len(message)
            /\ message[i + 2 + Digs(i + 1)] = ":"
            /\ Digs(i + 2 + Digs(i + 1)) >= 1
        hits == {i \in 0..(Len(message) - 1) : Hit(i)}
    IN  IF hits = {} THEN <<>>
        ELSE LET i == CHOOSE h \in hits : \A j \in hits : h <= j
                 n1 == Digs(i + 1)
                 n2 == Digs(i + 2 + n1)
             IN  << Slice(message, i + 1, i + 1 + n1),
                    Slice(message, i + 2 + n1, i + 2 + n1 + n2) >>

\* the diagnostics array built by the catch block
ErrorDiagnostics(message) ==
    LET match == ErrorPosition(message)
    IN  IF match # <<>>
        THEN LET line == ParseInt(match[1]) - 1
                 column == ParseInt(match[2]) - 1
             IN  << [severity |-> "Error",
                     range |-> [start |-> [line |-> line,
                                           character |-> column],
                                end |-> [line |-> line,
                                         character |-> column + 1]],
                     message |-> message,
                     source |-> "CursorScript"] >>
        ELSE <<>>

\* the diagnostics after the try/catch; outcome is what produceAST did
Diagnostics(outcome) ==
    IF outcome.ok THEN <<>> ELSE ErrorDiagnostics(outcome.message)

\* mutant: the catch block deletes the entry of the document
CacheAfterParse_DropOnFailure(cache, uri, outcome) ==
    IF outcome.ok THEN MapSet(cache, uri, outcome.program)
    ELSE MapDelete(cache, uri)

\* mutant: one slot for the last tree instead of one entry per document
CacheAfterParse_SingleSlot(cache, uri, outcome) ==
    IF outcome.ok THEN (uri :> outcome.program) ELSE cache

\* mutant: the catch block caches the tree as far as it was built
CacheAfterParse_KeepPartial(cache, uri, outcome) ==
    IF outcome.ok THEN MapSet(cache, uri, outcome.program)
    ELSE MapSet(cache, uri, [kind |-> "Program", body |-> <<>>])

\* the cache after the try/catch
CacheAfterParse(cache, uri, outcome) ==
    IF outcome.ok THEN MapSet(cache, uri, outcome.program) ELSE cache

\* mutant: nothing is sent when there is nothing to report
SendDiagnostics_OnlyErrors(uri, diagnostics) ==
    IF diagnostics = <<>> THEN <<>>
    ELSE << [uri |-> uri, diagnostics |-> diagnostics] >>

\* connection.sendDiagnostics({uri, diagnostics})
SendDiagnostics(uri, diagnostics) ==
    << [uri |-> uri, diagnostics |-> diagnostics] >>

\* the host replaces the diagnostics of a document by those of each
\* notification it receives
RECURSIVE Delivered(_, _)
Delivered(shown, notifications) ==
    IF notifications = <<>> THEN shown
    ELSE Delivered(MapSet(shown, Head(notifications).uri,
                          Head(notifications).diagnostics),
                   Tail(notifications))

\* documents.onDidChangeContent: the manager holds the new text (the
\* document is opened by its first content event) and validateTextDocument
\* runs to its end: it has no await, so no other handler runs in between.
DidChangeContent(uri, text, outcome) ==
    /\ documents' = MapSet(documents, uri, text)
    /\ astCache' = CacheAfterParse(astCache, uri, outcome)
    /\ sent' = SendDiagnostics(uri, Diagnostics(outcome))
    /\ published' = Delivered(published,
                              SendDiagnostics(uri, Diagnostics(outcome)))
    /\ lastOp' = [kind |-> "change", uri |-> uri, offset |-> 0,
                  ok |-> outcome.ok,
                  message |-> IF outcome.ok THEN <<>> ELSE outcome.message]
    /\ reply' = <<>>
    /\ lastGood' = IF outcome.ok THEN MapSet(lastGood, uri, outcome.program)
                   ELSE lastGood
    /\ UNCHANGED hostVars

\* the editor closes a document: the manager forgets it; the server
\* registers no handler of its own for this event
DidClose(uri) ==
    /\ uri \in DOMAIN documents
    /\ documents' = MapDelete(documents, uri)
    /\ sent' = <<>>
    /\ lastOp' = [kind |-> "close", uri |-> uri, offset |-> 0]
    /\ reply' = <<>>
    /\ UNCHANGED <<astCache, published, lastGood>>
    /\ UNCHANGED hostVars

----------------------------------------------------------------------------
(* Queries *)

\* getSymbolAtPosition(uri, word)
getSymbolAtPosition(uri, word) ==
    IF uri \notin DOMAIN astCache THEN <<>>
    ELSE Resolve(getSymbolsInProgram(astCache[uri]), word)

\* the matches of /[a-zA-Z0-9_$]+/g in text, as 0-based start offsets,
\* and the length of the match that starts at i
WordStarts(text) ==
    {i \in 0..(Len(text) - 1) :
        text[i + 1] \in WordChars /\ (i = 0 \/ text[i] \notin WordChars)}
WordLen(text, i) == RunFrom(text, i, WordChars)
WordAt(text, i) == Slice(text, i, i + WordLen(text, i))

\* the matches the loop of onHover / onDefinition looks at for this offset,
\* in the order of the loop
WordsAtOffset(text, offset) ==
    LET RECURSIVE scan(_)
        scan(i) ==
            IF i >= Len(text) THEN <<>>
            ELSE IF i \in WordStarts(text)
            THEN (IF offset >= i /\ offset <= i + WordLen(text, i)
                  THEN <<i>> ELSE <<>>) \o scan(i + WordLen(text, i))
            ELSE scan(i + 1)
    IN  scan(0)

CompletionItem(s, data) ==
    [label |-> s.name, kind |-> s.kind, detail |-> s.detail,
     documentation |-> s.documentation, data |-> data,
     insertText |-> s.insertText,
     insertTextFormat |-> IF s.insertText # <<>> THEN 2 ELSE 1]

\* new Map filled by allSymbols.forEach(s => set(s.name, s)), then its
\* values: one per name, at the place of the name's first insertion, being
\* the symbol inserted last under that name
UniqueSymbols(allSymbols) ==
    LET firsts == {i \in 1..Len(allSymbols) :
                     \A j \in 1..(i - 1) : allSymbols[j].name # allSymbols[i].name}
        LastOf(i) == CHOOSE j \in i..Len(allSymbols) :
                        /\ allSymbols[j].name = allSymbols[i].name
                        /\ \A k \in (j + 1)..Len(allSymbols) :
                              allSymbols[k].name # allSymbols[i].name
        RECURSIVE values(_)
        values(i) ==
            IF i > Len(allSymbols) THEN <<>>
            ELSE (IF i \in firsts THEN <<allSymbols[LastOf(i)]>> ELSE <<>>)
                 \o values(i + 1)
    IN  values(1)

\* mutant: the line filter lets the cursor's own line through
GeneralCompletion_Inclusive(localSymbols, currentLine) ==
    LET Visible(s) == s.line <= currentLine
        availableSymbols == SelectSeq(localSymbols, Visible)
        unique == UniqueSymbols(GLOBAL_SYMBOLS \o availableSymbols)
    IN  [i \in 1..Len(unique) |-> CompletionItem(unique[i], <<unique[i]>>)]

\* the general case of onCompletion
GeneralCompletion(localSymbols, currentLine) ==
    LET Visible(s) == s.line < currentLine
        availableSymbols == SelectSeq(localSymbols, Visible)
        unique == UniqueSymbols(GLOBAL_SYMBOLS \o availableSymbols)
    IN  [i \in 1..Len(unique) |-> CompletionItem(unique[i], <<unique[i]>>)]

\* textBefore.match(/([a-zA-Z0-9_$]+)\.$/): undefined or the object name
DotMatch(textBefore) ==
    LET n == Len(textBefore)
        run == RunBefore(textBefore, n - 1, WordChars)
    IN  IF n >= 1 /\ textBefore[n] = "." /\ run >= 1
        THEN << Slice(textBefore, n - 1 - run, n - 1) >>
        ELSE <<>>

\* the comment check of onCompletion
InLineComment(text, offset) ==
    Includes(Slice(text, LineStartOffset(text, offset), offset), S_slashes)

\* mutant: the member branch is tried before the comment check
onCompletion_MembersFirst(uri, offset) ==
    IF uri \notin DOMAIN documents THEN <<>>
    ELSE
      LET text == documents[uri]
          localSymbols ==
              IF uri \in DOMAIN astCache
              THEN getSymbolsInProgram(astCache[uri]) ELSE <<>>
          dotMatch == DotMatch(Slice(text, 0, offset))
          symbol == IF dotMatch # <<>>
                    THEN Resolve(localSymbols, dotMatch[1]) ELSE <<>>
      IN  IF symbol # <<>> /\ symbol[1].members # <<>>
          THEN LET members == symbol[1].members[1]
               IN  [i \in 1..Len(members) |-> CompletionItem(members[i], <<>>)]
          ELSE IF InLineComment(text, offset) THEN <<>>
          ELSE GeneralCompletion(localSymbols, LineOf(text, offset) + 1)

\* onCompletion for the position at `offset` of the document
onCompletion(uri, offset) ==
    IF uri \notin DOMAIN documents THEN <<>>
    ELSE
      LET text == documents[uri]
      IN  IF InLineComment(text, offset) THEN <<>>
          ELSE
            LET localSymbols ==
                    IF uri \in DOMAIN astCache
                    THEN getSymbolsInProgram(astCache[uri]) ELSE <<>>
                dotMatch == DotMatch(Slice(text, 0, offset))
                symbol == IF dotMatch # <<>>
                          THEN Resolve(localSymbols, dotMatch[1]) ELSE <<>>
            IN  IF symbol # <<>> /\ symbol[1].members # <<>>
                THEN LET members == symbol[1].members[1]
                     IN  [i \in 1..Len(members) |->
                            CompletionItem(members[i], <<>>)]
                ELSE GeneralCompletion(localSymbols, LineOf(text, offset) + 1)

\* mutant: any resolved symbol is a definition target
IsNavigable_Any(symbol) == symbol # <<>>

\* the test onDefinition puts a resolved symbol to
IsNavigable(symbol) == symbol # <<>> /\ symbol[1].line > 0

\* onDefinition for the position at `offset` of the document
onDefinition(uri, offset) ==
    IF uri \notin DOMAIN documents THEN <<>>
    ELSE
      LET text == documents[uri]
          words == WordsAtOffset(text, offset)
          Location(i) ==
            LET word == WordAt(text, i)
                symbol == getSymbolAtPosition(uri, word)
            IN  IF IsNavigable(symbol)
                THEN LET line == Max(0, symbol[1].line - 1)
                         col == Max(0, symbol[1].column - 1)
                     IN  << [uri |-> uri,
                             range |-> [start |-> [line |-> line,
                                                   character |-> col],
                                        end |-> [line |-> line,
                                                 character |-> col + Len(word)]]] >>
                ELSE <<>>
          found == {k \in 1..Len(words) : Location(words[k]) # <<>>}
      IN  IF found = {} THEN <<>>
          ELSE Location(words[CHOOSE k \in found : \A j \in found : k <= j])

S_bold == <<"*", "*">>
S_para == <<"\n", "\n">>

\* onHover for the position at `offset` of the document
onHover(uri, offset) ==
    IF uri \notin DOMAIN documents THEN <<>>
    ELSE IF uri \notin DOMAIN astCache THEN <<>>
    ELSE
      LET text == documents[uri]
          words == WordsAtOffset(text, offset)
          localSymbols == getSymbolsInProgram(astCache[uri])
          Contents(i) ==
            LET word == WordAt(text, i)
                symbol == Resolve(localSymbols, word)
            IN  IF symbol # <<>>
                THEN << [contents |->
                          [kind |-> "markdown",
                           value |-> S_bold \o word \o S_bold \o S_para
                                     \o symbol[1].detail
                                     \o (IF symbol[1].documentation # <<>>
                                         THEN S_para \o symbol[1].documentation[1]
                                         ELSE <<>>)]] >>
                ELSE <<>>
          found == {k \in 1..Len(words) : Contents(words[k]) # <<>>}
      IN  IF found = {} THEN <<>>
          ELSE Contents(words[CHOOSE k \in found : \A j \in found : k <= j])

\* s.trim()
Trim(s) ==
    LET lead == RunFrom(s, 0, SpaceChars)
    IN  IF lead = Len(s) THEN <<>>
        ELSE Slice(s, lead, Len(s) - RunBefore(s, Len(s), SpaceChars))

\* s.split(sep) for a one-character separator
RECURSIVE Split(_, _)
Split(s, sep) ==
    LET at == {i \in 1..Len(s) : s[i] = sep}
    IN  IF at = {} THEN <<s>>
        ELSE LET i == CHOOSE h \in at : \A j \in at : h <= j
             IN  <<SubSeq(s, 1, i - 1)>> \o Split(SubSeq(s, i + 1, Len(s)), sep)

\* mutant: the first occurrence instead of the last
IndexOf_First(s, c) ==
    LET at == {i \in 1..Len(s) : s[i] = c}
    IN  IF at = {} THEN -1 ELSE (CHOOSE h \in at : \A j \in at : h <= j) - 1

\* s.lastIndexOf(c), -1 when c does not occur
LastIndexOf(s, c) ==
    LET at == {i \in 1..Len(s) : s[i] = c}
    IN  IF at = {} THEN -1 ELSE (CHOOSE h \in at : \A j \in at : j <= h) - 1

\* head.match(/([a-zA-Z0-9_$]+(\.[a-zA-Z0-9_$]+)?)\s*$/): undefined or
\* group 1 of the leftmost match
FuncMatch(head) ==
    LET e == Len(head) - RunBefore(head, Len(head), SpaceChars)
        w2 == RunBefore(head, e, WordChars)
        s2 == e - w2
        w1 == IF s2 >= 1 /\ head[s2] = "."
              THEN RunBefore(head, s2 - 1, WordChars) ELSE 0
    IN  IF w2 = 0 THEN <<>>
        ELSE IF w1 >= 1 THEN << Slice(head, s2 - 1 - w1, e) >>
        ELSE << Slice(head, s2, e) >>

\* detail.match(/\(([^)]*)\)/): undefined or group 1 of the leftmost match
ParamMatch(detail) ==
    LET Closers(i) == {j \in (i + 2)..Len(detail) : detail[j] = ")"}
        opens == {i \in 0..(Len(detail) - 1) :
                    detail[i + 1] = "(" /\ Closers(i) # {}}
    IN  IF opens = {} THEN <<>>
        ELSE LET i == CHOOSE h \in opens : \A j \in opens : h <= j
                 c == CHOOSE h \in Closers(i) : \A j \in Closers(i) : h <= j
             IN  << SubSeq(detail, i + 2, c - 1) >>

\* onSignatureHelp for the position at `offset` of the document
onSignatureHelp(uri, offset) ==
    IF uri \notin DOMAIN documents THEN <<>>
    ELSE
      LET text == documents[uri]
          textBefore == Slice(text, 0, offset)
          openParenIndex == LastIndexOf(textBefore, "(")
          funcMatch == IF openParenIndex = -1 THEN <<>>
                       ELSE FuncMatch(Slice(textBefore, 0, openParenIndex))
      IN  IF funcMatch = <<>> THEN <<>>
          ELSE
            LET fullName == funcMatch[1]
                parts == Split(fullName, ".")
                obj == getSymbolAtPosition(uri, parts[1])
                symbol ==
                    IF Includes(fullName, <<".">>)
                    THEN IF obj # <<>> /\ obj[1].members # <<>>
                         THEN Find(obj[1].members[1], parts[2])
                         ELSE <<>>
                    ELSE getSymbolAtPosition(uri, fullName)
            IN  IF symbol # <<>> /\ Includes(symbol[1].detail, S_open)
                THEN
                  LET paramMatch == ParamMatch(symbol[1].detail)
                      paramsList ==
                        IF paramMatch # <<>> /\ paramMatch[1] # <<>>
                        THEN LET raw == Split(paramMatch[1], ",")
                             IN  [i \in 1..Len(raw) |-> [label |-> Trim(raw[i])]]
                        ELSE <<>>
                      commas ==
                        Len(Split(Slice(textBefore, openParenIndex, offset), ",")) - 1
                  IN  << [signatures |->
                            << [label |-> symbol[1].detail,
                                documentation |-> symbol[1].documentation,
                                parameters |-> paramsList] >>,
                          activeSignature |-> 0,
                          activeParameter |-> commas] >>
                ELSE <<>>

\* the SymbolKind onDocumentSymbol gives a CompletionItemKind
SymbolKind(kind) ==
    IF kind = "Function" THEN "Function"
    ELSE IF kind = "Constant" THEN "Constant"
    ELSE IF kind = "Module" THEN "Module"
    ELSE IF kind = "Class" THEN "Class"
    ELSE "Variable"

\* onDocumentSymbol
onDocumentSymbol(uri) ==
    IF uri \notin DOMAIN astCache THEN <<>>
    ELSE
      LET symbols == getSymbolsInProgram(astCache[uri])
          Entry(s) ==
            LET line == Max(0, s.line - 1)
                column == Max(0, s.column - 1)
                range == [start |-> [line |-> line, character |-> column],
                          end |-> [line |-> line,
                                   character |-> column + Len(s.name)]]
            IN  [name |-> s.name, kind |-> SymbolKind(s.kind),
                 range |-> range, selectionRange |-> range,
                 detail |-> s.detail]
      IN  [i \in 1..Len(symbols) |-> Entry(symbols[i])]

----------------------------------------------------------------------------
(* The formatter *)

\* text.replace(/\{\s*([^\s}])/g, "{\n$1")
ExpandOpen(text) ==
    LET RECURSIVE scan(_)
        scan(i) ==
            IF i >= Len(text) THEN <<>>
            ELSE LET j == i + 1 + RunFrom(text, i + 1, SpaceChars)
                 IN  IF /\ text[i + 1] = "{"
                        /\ j < Len(text)
                        /\ text[j + 1] \notin (SpaceChars \cup {"}"})
                     THEN <<"{", "\n", text[j + 1]>> \o scan(j + 1)
                     ELSE <<text[i + 1]>> \o scan(i + 1)
    IN  scan(0)

\* text.replace(/([^\s{])\s*\}/g, "$1\n}")
ExpandClose(text) ==
    LET RECURSIVE scan(_)
        scan(i) ==
            IF i >= Len(text) THEN <<>>
            ELSE LET j == i + 1 + RunFrom(text, i + 1, SpaceChars)
                 IN  IF /\ text[i + 1] \notin (SpaceChars \cup {"{"})
                        /\ j < Len(text)
                        /\ text[j + 1] = "}"
                     THEN <<text[i + 1], "\n", "}">> \o scan(j + 1)
                     ELSE <<text[i + 1]>> \o scan(i + 1)
    IN  scan(0)

\* text.split(/\r?\n/)
SplitLines(text) ==
    LET raw == Split(text, "\n")
    IN  [i \in 1..Len(raw) |->
            IF i < Len(raw) /\ EndsWith(raw[i], <<"\r">>)
            THEN SubSeq(raw[i], 1, Len(raw[i]) - 1) ELSE raw[i]]

\* the length of the match of (==|!=|<=|>=|=) at 0-based offset i, or 0
OperatorAt(s, i) ==
    IF i + 1 < Len(s) /\ s[i + 1] \in {"=", "!", "<", ">"} /\ s[i + 2] = "="
    THEN 2
    ELSE IF i < Len(s) /\ s[i + 1] = "=" THEN 1
    ELSE 0

\* line.replace(/\s*(==|!=|<=|>=|=)\s*/g, " $1 ")
SpaceOperators(s) ==
    LET RECURSIVE scan(_)
        scan(i) ==
            IF i >= Len(s) THEN <<>>
            ELSE LET j == i + RunFrom(s, i, SpaceChars)
                     n == OperatorAt(s, j)
                     e == j + n + RunFrom(s, j + n, SpaceChars)
                 IN  IF n > 0
                     THEN <<" ">> \o Slice(s, j, j + n) \o <<" ">> \o scan(e)
                     ELSE <<s[i + 1]>> \o scan(i + 1)
    IN  scan(0)

\* line.replace(/\s*c\s*/g, "c ") for the one-character c  ("," and ":")
SpaceAfter(s, c) ==
    LET RECURSIVE scan(_)
        scan(i) ==
            IF i >= Len(s) THEN <<>>
            ELSE LET j == i + RunFrom(s, i, SpaceChars)
                 IN  IF j < Len(s) /\ s[j + 1] = c
                     THEN <<c, " ">>
                          \o scan(j + 1 + RunFrom(s, j + 1, SpaceChars))
                     ELSE <<s[i + 1]>> \o scan(i + 1)
    IN  scan(0)

\* line.replace(/\)\s*\{/g, ") {")
SpaceParenBrace(s) ==
    LET RECURSIVE scan(_)
        scan(i) ==
            IF i >= Len(s) THEN <<>>
            ELSE LET j == i + 1 + RunFrom(s, i + 1, SpaceChars)
                 IN  IF s[i + 1] = ")" /\ j < Len(s) /\ s[j + 1] = "{"
                     THEN <<")", " ", "{">> \o scan(j + 1)
                     ELSE <<s[i + 1]>> \o scan(i + 1)
    IN  scan(0)

\* the character class \w, which \b is defined by
RegexWordChars == Lower \cup Upper \cup Digits \cup {"_"}

K_if == <<"i", "f">>
K_while == <<"w", "h", "i", "l", "e">>
K_else == <<"e", "l", "s", "e">>
K_fn == <<"f", "n">>
K_import == <<"i", "m", "p", "o", "r", "t">>

\* the length of the match of \b(if|while|fn|import) at 0-based offset i,
\* or 0
KeywordAt(s, i) ==
    LET At(k) == Len(s) >= i + Len(k) /\ Slice(s, i, i + Len(k)) = k
    IN  IF i > 0 /\ s[i] \in RegexWordChars THEN 0
        ELSE IF At(K_if) THEN 2
        ELSE IF At(K_while) THEN 5
        ELSE IF At(K_fn) THEN 2
        ELSE IF At(K_import) THEN 6
        ELSE 0

\* line.replace(/\b(if|while|fn|import)\s?\(/g, "$1 (")
SpaceKeywords(s) ==
    LET RECURSIVE scan(_)
        scan(i) ==
            IF i >= Len(s) THEN <<>>
            ELSE LET n == KeywordAt(s, i)
                     j == i + n
                     p == IF j < Len(s) /\ s[j + 1] \in SpaceChars
                          THEN j + 1 ELSE j
                 IN  IF n > 0 /\ p < Len(s) /\ s[p + 1] = "("
                     THEN Slice(s, i, j) \o <<" ", "(">> \o scan(p + 1)
                     ELSE <<s[i + 1]>> \o scan(i + 1)
    IN  scan(0)

\* the chain of replaces named Polish, and its trim
Polish(line) ==
    Trim(SpaceKeywords(SpaceParenBrace(
            SpaceAfter(SpaceAfter(SpaceOperators(line), ","), ":"))))

\* mutant: a line with ":" is treated like any other statement
NeedsSemicolon_IgnoresProperty(line) ==
    LET isBlockStart == EndsWith(line, <<"{">>) \/ EndsWith(line, <<"[">>)
        isBlockEnd == \/ StartsWith(line, <<"}">>) \/ StartsWith(line, <<"]">>)
                      \/ EndsWith(line, <<"}">>)
        isControlFlow == \/ StartsWith(line, K_if) \/ StartsWith(line, K_while)
                         \/ StartsWith(line, K_else)
        isFunction == StartsWith(line, S_fn)
        isComment == StartsWith(line, S_slashes)
        endsWithComma == EndsWith(line, <<",">>)
    IN  /\ ~isBlockStart /\ ~isBlockEnd /\ ~isControlFlow /\ ~isFunction
        /\ ~isComment /\ ~endsWithComma
        /\ ~EndsWith(line, <<";">>)

\* whether the loop appends ";" to the trimmed, non-empty line
NeedsSemicolon(line) ==
    LET isBlockStart == EndsWith(line, <<"{">>) \/ EndsWith(line, <<"[">>)
        isBlockEnd == \/ StartsWith(line, <<"}">>) \/ StartsWith(line, <<"]">>)
                      \/ EndsWith(line, <<"}">>)
        isControlFlow == \/ StartsWith(line, K_if) \/ StartsWith(line, K_while)
                         \/ StartsWith(line, K_else)
        isFunction == StartsWith(line, S_fn)
        isComment == StartsWith(line, S_slashes)
        isProperty == Includes(line, <<":">>) /\ ~StartsWith(line, K_import)
        endsWithComma == EndsWith(line, <<",">>)
    IN  /\ ~isBlockStart /\ ~isBlockEnd /\ ~isControlFlow /\ ~isFunction
        /\ ~isComment /\ ~isProperty /\ ~endsWithComma
        /\ ~EndsWith(line, <<";">>)

Spaces(n) == [i \in 1..n |-> " "]

\* mutant: the de-indent has no floor at 0
FormatLine_NoFloor(st, rawLine, indentSize) ==
    LET line == Trim(rawLine)
        out == st.formattedLines
    IN  IF Len(line) = 0
        THEN [st EXCEPT !.formattedLines =
                 IF Len(out) > 0 /\ out[Len(out)] # <<>>
                 THEN Append(out, <<>>) ELSE out]
        ELSE
          LET level == IF StartsWith(line, <<"}">>) \/ StartsWith(line, <<"]">>)
                       THEN st.indentLevel - 1 ELSE st.indentLevel
              polished == Polish(IF NeedsSemicolon(line)
                                 THEN line \o <<";">> ELSE line)
          IN  [formattedLines |->
                  Append(out, Spaces(level * indentSize) \o polished),
               indentLevel |->
                  IF EndsWith(polished, <<"{">>) \/ EndsWith(polished, <<"[">>)
                  THEN level + 1 ELSE level]

\* one iteration of the loop over lines; st holds formattedLines and
\* indentLevel
FormatLine(st, rawLine, indentSize) ==
    LET line == Trim(rawLine)
        out == st.formattedLines
    IN  IF Len(line) = 0
        THEN [st EXCEPT !.formattedLines =
                 IF Len(out) > 0 /\ out[Len(out)] # <<>>
                 THEN Append(out, <<>>) ELSE out]
        ELSE
          LET level == IF StartsWith(line, <<"}">>) \/ StartsWith(line, <<"]">>)
                       THEN Max(0, st.indentLevel - 1) ELSE st.indentLevel
              polished == Polish(IF NeedsSemicolon(line)
                                 THEN line \o <<";">> ELSE line)
          IN  [formattedLines |->
                  Append(out, Spaces(level * indentSize) \o polished),
               indentLevel |->
                  IF EndsWith(polished, <<"{">>) \/ EndsWith(polished, <<"[">>)
                  THEN level + 1 ELSE level]

RECURSIVE FormatLines(_, _, _)
FormatLines(st, lines, indentSize) ==
    IF lines = <<>> THEN st
    ELSE FormatLines(FormatLine(st, Head(lines), indentSize),
                     Tail(lines), indentSize)

DefaultTabSize == 4

\* params.options.tabSize || 4
IndentSize(tabSize) == IF tabSize = 0 THEN DefaultTabSize ELSE tabSize

\* the new text onDocumentFormatting computes for `text`
Format(text, tabSize) ==
    LET lines == SplitLines(ExpandClose(ExpandOpen(text)))
        st == FormatLines([formattedLines |-> <<>>, indentLevel |-> 0],
                          lines, IndentSize(tabSize))
    IN  Join(st.formattedLines, <<"\n">>)

\* onDocumentFormatting: one edit replacing the whole document
onDocumentFormatting(uri, tabSize) ==
    IF uri \notin DOMAIN documents THEN <<>>
    ELSE LET text == documents[uri]
             lines == SplitLines(ExpandClose(ExpandOpen(text)))
         IN  << [range |-> [start |-> [line |-> 0, character |-> 0],
                            end |-> [line |-> Len(lines) + 10,
                                     character |-> 0]],
                 newText |-> Format(text, tabSize)] >>

----------------------------------------------------------------------------
(* What the parser hands over: trees in the shape of CursorPP's ast.ts,    *)
(* with 1-based line and column, and the messages of its errors.           *)

NumericLiteral == [kind |-> "NumericLiteral"]
StringLiteral == [kind |-> "StringLiteral"]
ArrayLiteral == [kind |-> "ArrayLiteral"]
CallExpr == [kind |-> "CallExpr"]
Identifier(symbol) == [kind |-> "Identifier", symbol |-> symbol]
LambdaExpr(parameters) == [kind |-> "LambdaExpr", parameters |-> parameters]
Property(key, value) == [key |-> key, value |-> value]
ObjectLiteral(properties) ==
    [kind |-> "ObjectLiteral", properties |-> properties]

VarDeclaration(identifier, constant, value, line, column) ==
    [kind |-> "VarDeclaration", identifier |-> identifier,
     constant |-> constant, value |-> value, line |-> line, column |-> column]
VarDeclarationNoValue(identifier, line, column) ==
    [kind |-> "VarDeclaration", identifier |-> identifier,
     constant |-> FALSE, line |-> line, column |-> column]
FunctionDeclaration(name, parameters, body, line, column) ==
    [kind |-> "FunctionDeclaration", name |-> name, parameters |-> parameters,
     body |-> body, line |-> line, column |-> column]
ImportDeclaration(specifiers, source, line, column) ==
    [kind |-> "ImportDeclaration", specifiers |-> specifiers,
     source |-> source, line |-> line, column |-> column]
IfStatement(thenBranch, elseBranch, line, column) ==
    [kind |-> "IfStatement", thenBranch |-> thenBranch,
     elseBranch |-> elseBranch, line |-> line, column |-> column]
WhileStatement(body, line, column) ==
    [kind |-> "WhileStatement", body |-> body, line |-> line, column |-> column]
Program(body) == [kind |-> "Program", body |-> body]

\* (empty file)
ProgEmpty == Program(<<>>)

\* let x = {a: 1, b: {k: 2}};
ProgObject ==
    Program(<< VarDeclaration(N_x, FALSE,
                 ObjectLiteral(<< Property(N_a, NumericLiteral),
                                  Property(N_b, ObjectLiteral(
                                      << Property(N_k, NumericLiteral) >>)) >>),
                 1, 5) >>)

\* fn add(a, b) {
\*   let x = 1
\* }
\* const y = add(1, 2)
ProgFunction ==
    Program(<< FunctionDeclaration(N_add, <<N_a, N_b>>,
                 << VarDeclaration(N_x, FALSE, NumericLiteral, 2, 7) >>, 1, 1),
               VarDeclaration(N_y, TRUE, CallExpr, 4, 7) >>)

\* let Window = 1
\* let print = {m: 1}
\* let y
ProgShadow ==
    Program(<< VarDeclaration(N_Window, FALSE, NumericLiteral, 1, 5),
               VarDeclaration(N_print, FALSE,
                 ObjectLiteral(<< Property(N_m, NumericLiteral) >>), 2, 5),
               VarDeclarationNoValue(N_y, 3, 5) >>)

\* let x = "s"
\* if (c) { let x = {k: 1}
\* } else { const y = null }
ProgRedeclare ==
    Program(<< VarDeclaration(N_x, FALSE, StringLiteral, 1, 5),
               IfStatement(
                 << VarDeclaration(N_x, FALSE,
                      ObjectLiteral(<< Property(N_k, NumericLiteral) >>),
                      2, 14) >>,
                 << VarDeclaration(N_y, TRUE, Identifier(S_nullId), 3, 16) >>,
                 2, 1) >>)

\* import { m, Window } from "lib"
\* while (c) { let z = fn(a) { a } }
ProgImport ==
    Program(<< ImportDeclaration(<<N_m, N_Window>>, N_lib, 1, 1),
               WhileStatement(
                 << VarDeclaration(N_z, FALSE, LambdaExpr(<<N_a>>), 2, 17) >>,
                 2, 1) >>)

\* "E:2:3", "EOF", "a:1:b:12:10"
MsgPositioned == <<"E", ":", "2", ":", "3">>
MsgBare == <<"E", "O", "F">>
MsgLate == <<"a", ":", "1", ":", "b", ":", "1", "2", ":", "1", "0">>

\* what produceAST can do with a text: return a tree or throw
ParseOutcomes(programs, messages) ==
    {[ok |-> TRUE, program |-> p] : p \in programs}
    \cup {[ok |-> FALSE, message |-> m] : m \in messages}

----------------------------------------------------------------------------
(* The extension host: the storage directory, cursorx-config.json, the     *)
(* download of the runtime binary and the run-file command.  A config is   *)
(* a function from its keys to strings; "" stands for undefined.           *)

\* path.join(storagePath, exeName), and the executable in a subfolder
P_root == "cursorx"
P_sub == "bin/cursorx"
Paths == {P_root, P_sub}

\* release tags
Tags == {"v1", "v2"}

Platforms == {"win32", "linux"}

F_notes == <<"a", ".", "t", "x", "t">>
F_main == <<"m", ".", "c", "u", "r", "s", "o", "r">>
S_cursorExt == <<".", "c", "u", "r", "s", "o", "r">>

\* vscode.window.activeTextEditor: none, or the file name of its document
Editors == {<<>>, <<F_notes>>, <<F_main>>}

\* fs.existsSync of an executable's path
ExistsSync(exeAt, exePath) == exePath \in exeAt

\* the first match in directory order, which readdirSync leaves open;
\* <<>> is null
findFileRecursively(exeAt) ==
    IF exeAt = {} THEN {<<>>} ELSE {<<p>> : p \in exeAt}

getConfig(store) == store.config

\* config.key, "" when the key is missing
Field(config, key) == IF key \in DOMAIN config THEN config[key] ELSE ""

\* a || b on strings
OrElse(a, b) == IF a # "" THEN a ELSE b

\* { ...oldConfig, ...newConfig } written back to the file
updateConfig(store, newConfig) ==
    LET oldConfig == getConfig(store)
    IN  [store EXCEPT !.config =
            [k \in DOMAIN oldConfig \cup DOMAIN newConfig |->
                IF k \in DOMAIN newConfig THEN newConfig[k]
                ELSE oldConfig[k]]]

CONCURRENT_CONNECTIONS == 4

\* Math.ceil(a / b) for a positive b
Ceil(a, b) == (a + b - 1) \div b

\* the Range of each of the parallel requests of downloadBinary
ChunkRanges(totalSize) ==
    LET chunkSize == Ceil(totalSize, CONCURRENT_CONNECTIONS)
    IN  [k \in 1..CONCURRENT_CONNECTIONS |->
            LET i == k - 1
            IN  [start |-> i * chunkSize,
                 end |-> IF i = CONCURRENT_CONNECTIONS - 1
                         THEN totalSize - 1
                         ELSE (i + 1) * chunkSize - 1]]

\* parseInt(metadata.size) is a number above 0; <<>> is NaN
ValidSize(size) == size # <<>> /\ size[1] > 0

Runs == {"r1", "r2"}

\* an invocation of the command that has not started
IdleRun ==
    [pc |-> "idle", filePath |-> <<>>, exePath |-> "",
     needsInitialDownload |-> FALSE, needsUpdate |-> FALSE,
     latestVersion |-> "", totalSize |-> 0, ranges |-> <<>>,
     success |-> <<>>, outcome |-> "none"]

\* the invocation is over
Returned(run, outcome) ==
    [run EXCEPT !.pc = "done", !.ranges = <<>>, !.outcome = outcome]

\* the executable the command starts from
ResolveExePath(config, exeAt, found) ==
    LET runner == Field(config, "runner")
    IN  IF runner # "" /\ ExistsSync(exeAt, runner) THEN runner
        ELSE IF ExistsSync(exeAt, P_root) THEN P_root
        ELSE IF found # <<>> THEN found[1]
        ELSE P_root

\* the end of the command: chmodSync throws for a missing file and the
\* command rejects; otherwise the launch command goes to the terminal
Launch(r, run, exeAt) ==
    IF platform # "win32" /\ ~ExistsSync(exeAt, run.exePath)
    THEN /\ runs' = [runs EXCEPT ![r] = Returned(run, "threw")]
         /\ UNCHANGED terminal
    ELSE /\ runs' = [runs EXCEPT ![r] = Returned(run, "launched")]
         /\ terminal' = Append(terminal, [exePath |-> run.exePath,
                                          filePath |-> run.filePath[1]])

\* the download failed: the command gives up when it has no binary
GivesUp_Never(needsInitialDownload) == FALSE

GivesUp(needsInitialDownload) == needsInitialDownload

\* the command after `await downloadBinary`: success is what the download
\* returned, store the storage it left, extraction what tar / unzip does,
\* found what the search after it gives
AfterDownload(r, success, store, extraction, found) ==
    LET run == [runs[r] EXCEPT !.success = <<success>>]
    IN  IF success
        THEN LET extracted ==
                     [store EXCEPT !.exeAt = @ \cup extraction.adds]
             IN  IF ~extraction.ok
                 THEN /\ storage' = extracted
                      /\ runs' = [runs EXCEPT
                                    ![r] = Returned(run, "extractFailed")]
                      /\ UNCHANGED terminal
                 ELSE LET exePath == IF found # <<>> THEN found[1]
                                     ELSE run.exePath
                          version == IF run.latestVersion # "0.0.0"
                                     THEN run.latestVersion ELSE "1.0.0"
                          after ==
                              updateConfig([extracted EXCEPT !.zip = FALSE],
                                           [version |-> version,
                                            runner |-> exePath])
                      IN  /\ storage' = after
                          /\ Launch(r, [run EXCEPT !.exePath = exePath],
                                    after.exeAt)
        ELSE IF GivesUp(run.needsInitialDownload)
        THEN /\ storage' = store
             /\ runs' = [runs EXCEPT ![r] = Returned(run, "downloadFailed")]
             /\ UNCHANGED terminal
        ELSE /\ storage' = store
             /\ Launch(r, run, store.exeAt)

\* most launch commands a behaviour sends
MaxLaunches == 2

Pending == {q \in Runs : runs[q].pc \in {"metadata", "chunks"}}

\* cursorScript.runFile up to its await (or to its end when nothing has
\* to be downloaded)
RunFile(r, activeEditor, found) ==
    /\ runs[r].pc \in {"idle", "done"}
    /\ Len(terminal) + Cardinality(Pending) < MaxLaunches
    /\ IF activeEditor = <<>> \/ ~EndsWith(activeEditor[1], S_cursorExt)
       THEN /\ runs' = [runs EXCEPT ![r] = Returned(IdleRun, "rejected")]
            /\ UNCHANGED <<storage, terminal>>
       ELSE LET config == getConfig(storage)
                exePath == ResolveExePath(config, storage.exeAt, found)
                currentVersion == OrElse(Field(config, "version"), "0.0.0")
                latestVersion ==
                    OrElse(Field(config, "latestAvailableTag"), "0.0.0")
                needsInitialDownload ==
                    exePath = "" \/ ~ExistsSync(storage.exeAt, exePath)
                needsUpdate ==
                    latestVersion # "0.0.0" /\ latestVersion # currentVersion
                run == [IdleRun EXCEPT
                          !.filePath = activeEditor,
                          !.exePath = exePath,
                          !.needsInitialDownload = needsInitialDownload,
                          !.needsUpdate = needsUpdate,
                          !.latestVersion = latestVersion]
            IN  IF needsInitialDownload \/ needsUpdate
                THEN /\ runs' = [runs EXCEPT
                                   ![r] = [run EXCEPT !.pc = "metadata"]]
                     /\ UNCHANGED <<storage, terminal>>
                ELSE /\ Launch(r, run, storage.exeAt)
                     /\ UNCHANGED storage
    /\ UNCHANGED <<serverVars, platform, tagSync>>

\* what the HEAD request can give: an error, or a content-length
MetadataOutcomes(sizes) ==
    {[ok |-> FALSE, size |-> <<>>]}
    \cup {[ok |-> TRUE, size |-> s] : s \in {<<>>} \cup {<<n>> : n \in sizes}}

\* what tar / unzip can do: which executables it writes, and whether it
\* throws
Extractions == [ok : BOOLEAN, adds : SUBSET Paths]

\* downloadBinary after `await getFileMetadata`: the empty archive is
\* written and the chunk requests leave, or the download has failed
Metadata(r, metadata, extraction, found) ==
    /\ runs[r].pc = "metadata"
    /\ IF metadata.ok /\ ValidSize(metadata.size)
       THEN /\ storage' = [storage EXCEPT !.zip = TRUE]
            /\ runs' = [runs EXCEPT
                          ![r] = [@ EXCEPT
                                    !.pc = "chunks",
                                    !.totalSize = metadata.size[1],
                                    !.ranges = ChunkRanges(metadata.size[1])]]
            /\ UNCHANGED terminal
       ELSE AfterDownload(r, FALSE, [storage EXCEPT !.zip = FALSE],
                          extraction, found)
    /\ UNCHANGED <<serverVars, platform, tagSync>>

\* downloadBinary after `await Promise.all`: every response ended, or one
\* request failed and the archive is removed
Chunks(r, allEnded, extraction, found) ==
    /\ runs[r].pc = "chunks"
    /\ AfterDownload(r, allEnded,
                     IF allEnded THEN storage
                     ELSE [storage EXCEPT !.zip = FALSE],
                     extraction, found)
    /\ UNCHANGED <<serverVars, platform, tagSync>>

\* syncLatestTag after `await getLatestTag`: latestRelease is <<>> when the
\* request failed or the answer has no tag_name
SyncLatestTag(latestRelease) ==
    /\ tagSync = "pending"
    /\ tagSync' = "done"
    /\ storage' = IF latestRelease # <<>>
                  THEN updateConfig(storage,
                                    [latestAvailableTag |-> latestRelease[1]])
                  ELSE storage
    /\ UNCHANGED <<serverVars, platform, runs, terminal>>

\* the host after activate, with an empty storage directory
HostActivated ==
    /\ platform = "linux"
    /\ storage = [exeAt |-> {}, zip |-> FALSE, config |-> EmptyMap]
    /\ runs = [r \in Runs |-> IdleRun]
    /\ terminal = <<>>
    /\ tagSync = "pending"

----------------------------------------------------------------------------
(* The server as a state machine: one action per handler *)

Docs == {"d1", "d2"}

Init ==
    /\ documents = EmptyMap
    /\ astCache = EmptyMap
    /\ published = EmptyMap
    /\ sent = <<>>
    /\ lastOp = [kind |-> "init", uri |-> "", offset |-> 0]
    /\ reply = <<>>
    /\ lastGood = EmptyMap
    /\ HostActivated

\* a read-only request: it answers and touches nothing else
Answer(op, result) ==
    /\ lastOp' = op
    /\ reply' = result
    /\ sent' = <<>>
    /\ UNCHANGED <<documents, astCache, published, lastGood>>
    /\ UNCHANGED hostVars

\* astCache.get(uri)
CacheGet(uri) == IF uri \in DOMAIN astCache THEN <<astCache[uri]>> ELSE <<>>

\* a request that reads the cache, with what astCache.get gives it
Request(kind, uri, offset) ==
    [kind |-> kind, uri |-> uri, offset |-> offset, observed |-> CacheGet(uri)]

\* the offsets document.offsetAt can give for a position of the request
OffsetsOf(uri) ==
    IF uri \in DOMAIN documents THEN 0..Len(documents[uri]) ELSE {0}

Completion(uri, offset) ==
    /\ offset \in OffsetsOf(uri)
    /\ Answer(Request("completion", uri, offset), onCompletion(uri, offset))

Hover(uri, offset) ==
    /\ offset \in OffsetsOf(uri)
    /\ Answer(Request("hover", uri, offset), onHover(uri, offset))

Definition(uri, offset) ==
    /\ offset \in OffsetsOf(uri)
    /\ Answer(Request("definition", uri, offset), onDefinition(uri, offset))

SignatureHelp(uri, offset) ==
    /\ offset \in OffsetsOf(uri)
    /\ Answer(Request("signatureHelp", uri, offset),
              onSignatureHelp(uri, offset))

DocumentSymbol(uri) ==
    /\ uri \in Docs
    /\ Answer(Request("documentSymbol", uri, 0), onDocumentSymbol(uri))

DocumentFormatting(uri, tabSize) ==
    /\ uri \in Docs
    /\ Answer([kind |-> "formatting", uri |-> uri, offset |-> 0,
               tabSize |-> tabSize],
              onDocumentFormatting(uri, tabSize))

\* the editor applies the edit of the formatting request it just made:
\* the new text arrives as a content change
ApplyFormatting(uri, outcome) ==
    /\ lastOp.kind = "formatting" /\ lastOp.uri = uri /\ reply # <<>>
    /\ DidChangeContent(uri, reply[1].newText, outcome)

----------------------------------------------------------------------------
(* Spec: two documents, every handler *)

T_member == N_x \o <<".">>
T_block == <<"{", "x", "}">>

Texts == {T_member, T_block}
Programs == {ProgEmpty, ProgObject}
Messages == {MsgPositioned, MsgBare, MsgLate}
TabSizes == {0, 2}

Next ==
    \E uri \in Docs :
        \/ \E text \in Texts, outcome \in ParseOutcomes(Programs, Messages) :
              DidChangeContent(uri, text, outcome)
        \/ DidClose(uri)
        \/ \E offset \in OffsetsOf(uri) : Completion(uri, offset)
        \/ \E offset \in OffsetsOf(uri) : Hover(uri, offset)
        \/ \E offset \in OffsetsOf(uri) : Definition(uri, offset)
        \/ \E offset \in OffsetsOf(uri) : SignatureHelp(uri, offset)
        \/ DocumentSymbol(uri)
        \/ \E tabSize \in TabSizes : DocumentFormatting(uri, tabSize)

Spec == Init /\ [][Next]_vars

----------------------------------------------------------------------------
(* SpecQuery: one document, the queries over many texts and trees *)

QPrefixes == {<<>>, S_slashes, <<"\n", "\n">>, S_slashes \o <<"\n">>}
QWords == {N_Window, N_print, N_x}
QSuffixes == {<<>>, <<".">>}
QTexts == {p \o w \o s : p \in QPrefixes, w \in QWords, s \in QSuffixes}
QPrograms == {ProgEmpty, ProgObject, ProgFunction, ProgShadow, ProgRedeclare,
              ProgImport}
QMessages == {MsgPositioned}
QDoc == "d1"

NextQuery ==
    \/ \E text \in QTexts, outcome \in ParseOutcomes(QPrograms, QMessages) :
          DidChangeContent(QDoc, text, outcome)
    \/ \E offset \in OffsetsOf(QDoc) : Completion(QDoc, offset)
    \/ \E offset \in OffsetsOf(QDoc) : Hover(QDoc, offset)
    \/ \E offset \in OffsetsOf(QDoc) : Definition(QDoc, offset)
    \/ \E offset \in OffsetsOf(QDoc) : SignatureHelp(QDoc, offset)
    \/ DocumentSymbol(QDoc)

SpecQuery == Init /\ [][NextQuery]_vars

----------------------------------------------------------------------------
(* SpecFormat: the formatter over every short text of an alphabet *)

MaxFmtLen == 5
FmtAlphabet == {"f", "n", " ", ",", "{", "}", "\n"}
FmtTexts == UNION {[1..n -> FmtAlphabet] : n \in 0..MaxFmtLen}
FmtDoc == "d1"

InitFormat ==
    /\ documents \in {(FmtDoc :> t) : t \in FmtTexts}
    /\ astCache = EmptyMap
    /\ published = EmptyMap
    /\ sent = <<>>
    /\ lastOp = [kind |-> "init", uri |-> "", offset |-> 0]
    /\ reply = <<>>
    /\ lastGood = EmptyMap
    /\ HostActivated

NextFormat ==
    \/ \E tabSize \in TabSizes : DocumentFormatting(FmtDoc, tabSize)
    \/ \E outcome \in ParseOutcomes({ProgEmpty}, {}) :
          ApplyFormatting(FmtDoc, outcome)

SpecFormat == InitFormat /\ [][NextFormat]_vars

\* C7 (as claimed): formatting the formatter's output changes nothing
FormatIdempotent ==
    \A uri \in DOMAIN documents : \A tabSize \in TabSizes :
        Format(Format(documents[uri], tabSize), tabSize)
            = Format(documents[uri], tabSize)

----------------------------------------------------------------------------
(* Claims about the cache and the diagnostics, checked under Spec *)

FailedChange == lastOp.kind = "change" /\ ~lastOp.ok
GoodChange == lastOp.kind = "change" /\ lastOp.ok

\* the entry of a map as an optional value
Entry(map, uri) == IF uri \in DOMAIN map THEN <<map[uri]>> ELSE <<>>

\* C1: after a content change whose parse failed, the cache entry of the
\* document is the Program of its latest successful parse, and there is no
\* entry if no parse of it ever succeeded.
C1_FailedParseKeepsLastGood ==
    FailedChange => Entry(astCache, lastOp.uri) = Entry(lastGood, lastOp.uri)

\* a parse failed after an earlier one of the same document succeeded
C1_Witness ==
    FailedChange /\ lastOp.uri \in DOMAIN astCache
    /\ astCache[lastOp.uri] = ProgObject

\* C2 (as claimed): every failed parse publishes exactly one diagnostic,
\* placed at (line - 1, column - 1) of the pair in the message, whatever the
\* message is.
C2_FailedParseOneDiagnostic ==
    FailedChange =>
        /\ Len(sent) = 1
        /\ sent[1].uri = lastOp.uri
        /\ Len(sent[1].diagnostics) = 1
        /\ LET at == ErrorPosition(lastOp.message)
               d == sent[1].diagnostics[1]
           IN  at # <<>> =>
                 d.range.start = [line |-> ParseInt(at[1]) - 1,
                                  character |-> ParseInt(at[2]) - 1]

\* C3: every content change sends exactly one notification, for the changed
\* document, whose diagnostics replace those shown for it; they are empty
\* when the parse succeeded.
C3_OnePublicationPerChange ==
    lastOp.kind = "change" =>
        /\ Len(sent) = 1
        /\ sent[1].uri = lastOp.uri
        /\ Entry(published, lastOp.uri) = <<sent[1].diagnostics>>
        /\ lastOp.ok => sent[1].diagnostics = <<>>

\* a successful parse published the empty set while the other document
\* still shows an error
C3_Witness ==
    /\ GoodChange /\ published[lastOp.uri] = <<>>
    /\ \E other \in DOMAIN published : published[other] # <<>>

\* C4: a content change of document a leaves the cache entry and the shown
\* diagnostics of every other document as they were, and what it sends names
\* a only; every cache entry is the latest successful parse of its own
\* document.
C4_ChangeTouchesOneDocument ==
    /\ [][lastOp'.kind = "change" =>
            /\ \A b \in Docs \ {lastOp'.uri} :
                  /\ Entry(astCache', b) = Entry(astCache, b)
                  /\ Entry(published', b) = Entry(published, b)
            /\ \A i \in 1..Len(sent') : sent'[i].uri = lastOp'.uri]_vars
    /\ [](\A d \in Docs : Entry(astCache, d) = Entry(lastGood, d))

\* document d1 changed while d2 has a tree cached and an error shown
C4_Witness ==
    /\ lastOp.kind = "change" /\ lastOp.uri = "d1"
    /\ "d2" \in DOMAIN astCache /\ astCache["d2"] = ProgObject
    /\ "d2" \in DOMAIN published /\ published["d2"] # <<>>

\* C5: the cache has entries for documents only; a step that changes an
\* entry is a successful parse of that very document, and no step removes an
\* entry.
C5_CacheChangesOnlyOnGoodParse ==
    /\ [](DOMAIN astCache \subseteq Docs)
    /\ [][/\ DOMAIN astCache \subseteq DOMAIN astCache'
          /\ \A d \in Docs :
                Entry(astCache', d) # Entry(astCache, d) =>
                    /\ lastOp'.kind = "change" /\ lastOp'.ok
                    /\ lastOp'.uri = d]_vars

\* a hover was answered for a closed document whose tree is still cached
C5_Witness ==
    /\ lastOp.kind = "hover" /\ lastOp.uri \in DOMAIN astCache
    /\ lastOp.uri \notin DOMAIN documents

QueryKinds == {"completion", "hover", "definition", "signatureHelp",
               "documentSymbol"}

\* C6: what a query reads from the cache is a whole tree as the parser
\* returned it, the one of the latest successful parse of the document
\* before the query (nothing if there was none).
C6_QueryObservesLastGood ==
    lastOp.kind \in QueryKinds =>
        /\ lastOp.observed = Entry(lastGood, lastOp.uri)
        /\ \A i \in 1..Len(lastOp.observed) : lastOp.observed[i] \in Programs

\* a query read the tree of an earlier parse although the latest parse of
\* the document failed
C6_Witness ==
    /\ lastOp.kind = "completion" /\ lastOp.observed = <<ProgObject>>
    /\ published[lastOp.uri] # <<>>

----------------------------------------------------------------------------
(* Claims about the queries, checked under SpecQuery *)

\* the text and the offset of the request served last, for an open document
OpText == documents[lastOp.uri]
OpLocals ==
    IF lastOp.observed = <<>> THEN <<>>
    ELSE getSymbolsInProgram(lastOp.observed[1])

\* the identifier that ends right before 0-based offset `to`, if any
IdentifierEndingAt(text, to) ==
    LET starts == {i \in 0..(to - 1) :
                     /\ \A j \in (i + 1)..to : text[j] \in WordChars
                     /\ (i = 0 \/ text[i] \notin WordChars)}
    IN  IF starts = {} THEN <<>>
        ELSE << Slice(text, CHOOSE i \in starts : TRUE, to) >>

\* the identifier before the "." that ends right before the cursor, if any
ObjectBeforeDot(text, offset) ==
    IF offset >= 2 /\ text[offset] = "."
    THEN IdentifierEndingAt(text, offset - 1) ELSE <<>>

\* the first local of that name, else the first catalog symbol of that name
LocalThenGlobal(locals, word) ==
    LET InOrder(syms) ==
            {i \in 1..Len(syms) :
                /\ syms[i].name = word
                /\ \A j \in 1..(i - 1) : syms[j].name # word}
    IN  IF InOrder(locals) # {}
        THEN << locals[CHOOSE i \in InOrder(locals) : TRUE] >>
        ELSE IF InOrder(GLOBAL_SYMBOLS) # {}
        THEN << GLOBAL_SYMBOLS[CHOOSE i \in InOrder(GLOBAL_SYMBOLS) : TRUE] >>
        ELSE <<>>

\* the members of the symbol named before the "." at the cursor, or <<>>
\* when there is no such symbol or it has no members
OpMembers ==
    LET obj == ObjectBeforeDot(OpText, lastOp.offset)
        sym == IF obj = <<>> THEN <<>> ELSE LocalThenGlobal(OpLocals, obj[1])
    IN  IF sym = <<>> THEN <<>> ELSE sym[1].members

\* the reply lists exactly the given members, in order, and no symbol
RepliesMembers(members) ==
    /\ Len(reply) = Len(members)
    /\ \A i \in 1..Len(members) :
          /\ reply[i].label = members[i].name
          /\ reply[i].kind = members[i].kind
          /\ reply[i].detail = members[i].detail
          /\ reply[i].data = <<>>

CompletionServed ==
    lastOp.kind = "completion" /\ lastOp.uri \in DOMAIN documents

OpInComment ==
    \E i \in (LineStartOffset(OpText, lastOp.offset) + 1)..(lastOp.offset - 1) :
        OpText[i] = "/" /\ OpText[i + 1] = "/"

\* C8 (as claimed): completion right after `<identifier>.`, the identifier
\* resolving (locals first, then the catalog) to a symbol with members,
\* returns exactly these members, in order, on whatever line the cursor is.
C8_MemberCompletionAnywhere ==
    (CompletionServed /\ OpMembers # <<>>) => RepliesMembers(OpMembers[1])

\* C8 (amended): the same, for a cursor that has no `//` before it on its
\* line.
C8_MemberCompletion ==
    (CompletionServed /\ OpMembers # <<>> /\ ~OpInComment)
        => RepliesMembers(OpMembers[1])

\* on the third line, `Window.` is completed to create and clear
C8_Witness ==
    /\ CompletionServed /\ LineOf(OpText, lastOp.offset) = 2
    /\ OpMembers # <<>> /\ ~OpInComment
    /\ Len(reply) = 2
    /\ reply[1].label = N_create /\ reply[2].label = N_clear

\* C9: outside a comment and outside the member case, completion returns one
\* entry per name of the catalog and of the locals declared on a line before
\* the cursor's; the entry of a name is that of its last such local, else
\* the catalog's; no local of the cursor's line or of a later line is
\* returned.
C9_GeneralCompletion ==
    (CompletionServed /\ OpMembers = <<>> /\ ~OpInComment) =>
        LET currentLine == LineOf(OpText, lastOp.offset) + 1
            visible == {i \in 1..Len(OpLocals) : OpLocals[i].line < currentLine}
            globals == 1..Len(GLOBAL_SYMBOLS)
            names == {OpLocals[i].name : i \in visible}
                     \cup {GLOBAL_SYMBOLS[i].name : i \in globals}
            LastVisible(n) ==
                CHOOSE i \in visible :
                    /\ OpLocals[i].name = n
                    /\ \A j \in visible : OpLocals[j].name = n => j <= i
        IN  /\ {reply[i].label : i \in 1..Len(reply)} = names
            /\ Len(reply) = Cardinality(names)
            /\ \A i \in 1..Len(reply) :
                  /\ reply[i].data # <<>>
                  /\ reply[i].data[1].name = reply[i].label
                  /\ IF \E j \in visible : OpLocals[j].name = reply[i].label
                     THEN reply[i].data[1] = OpLocals[LastVisible(reply[i].label)]
                     ELSE \E g \in globals : reply[i].data[1] = GLOBAL_SYMBOLS[g]
                  /\ reply[i].data[1].line > 0
                        => reply[i].data[1].line < currentLine

\* with the cursor on line 3, of the two x declared on lines 1 and 2 the
\* second is offered and the y of line 3 is not
C9_Witness ==
    /\ CompletionServed /\ OpMembers = <<>> /\ ~OpInComment
    /\ lastOp.observed = <<ProgRedeclare>>
    /\ LineOf(OpText, lastOp.offset) = 2
    /\ \E i \in 1..Len(reply) :
          reply[i].label = N_x /\ reply[i].data[1].line = 2
    /\ \A i \in 1..Len(reply) : reply[i].label # N_y

\* the identifiers that contain or touch the 0-based offset
IdentifiersAt(text, offset) ==
    {w \in {<<i, n>> : i \in 0..Len(text), n \in 1..Len(text)} :
        /\ w[1] + w[2] <= Len(text)
        /\ \A j \in (w[1] + 1)..(w[1] + w[2]) : text[j] \in WordChars
        /\ (w[1] = 0 \/ text[w[1]] \notin WordChars)
        /\ (w[1] + w[2] = Len(text) \/ text[w[1] + w[2] + 1] \notin WordChars)
        /\ w[1] <= offset /\ offset <= w[1] + w[2]}

DefinitionServed ==
    lastOp.kind = "definition" /\ lastOp.uri \in DOMAIN documents

\* C10: a definition result is the span of a local symbol of the document
\* declared under the name at the cursor, at (line - 1, column - 1), as long
\* as the name; a name that only the catalog knows gives no result.
C10_DefinitionOnlyForLocals ==
    DefinitionServed =>
        LET at == IdentifiersAt(OpText, lastOp.offset)
            Named(w) == Slice(OpText, w[1], w[1] + w[2])
        IN  /\ reply # <<>> =>
                \E w \in at : \E i \in 1..Len(OpLocals) :
                    LET s == OpLocals[i]
                    IN  /\ s.name = Named(w) /\ s.line > 0
                        /\ reply[1].uri = lastOp.uri
                        /\ reply[1].range.start =
                              [line |-> s.line - 1, character |-> s.column - 1]
                        /\ reply[1].range.end =
                              [line |-> s.line - 1,
                               character |-> s.column - 1 + w[2]]
            /\ (\A w \in at : \A i \in 1..Len(OpLocals) :
                    OpLocals[i].name # Named(w)) => reply = <<>>

\* with a tree cached, Window under the cursor is known to the catalog only
\* and the answer is empty
C10_Witness ==
    /\ DefinitionServed /\ lastOp.observed = <<ProgObject>>
    /\ \E w \in IdentifiersAt(OpText, lastOp.offset) :
          Slice(OpText, w[1], w[1] + w[2]) = N_Window
    /\ reply = <<>>

----------------------------------------------------------------------------
(* Claims about hover, checked under SpecQuery *)

HoverServed ==
    lastOp.kind = "hover" /\ lastOp.uri \in DOMAIN documents

\* the markdown a hover shows for `word` resolved to `symbol`
HoverText(word, symbol) ==
    S_bold \o word \o S_bold \o S_para \o symbol.detail
    \o (IF symbol.documentation # <<>>
        THEN S_para \o symbol.documentation[1] ELSE <<>>)

\* the reply is what the claim asks for the identifiers at the cursor: the
\* hover of the first local of that name, else of the catalog symbol of that
\* name, else nothing
HoverAsResolved ==
    \A w \in IdentifiersAt(OpText, lastOp.offset) :
        LET word == Slice(OpText, w[1], w[1] + w[2])
            sym == LocalThenGlobal(OpLocals, word)
        IN  IF sym = <<>> THEN reply = <<>>
            ELSE /\ reply # <<>>
                 /\ reply[1].contents.value = HoverText(word, sym[1])

\* C11 (as claimed): a hover inside an identifier answers with the local of
\* that name declared anywhere in the document, else with the catalog
\* symbol of that name, else with nothing, whether or not a tree of the
\* document is cached.
C11_HoverResolves == HoverServed => HoverAsResolved

\* the same for documents that have a tree cached
C11_HoverResolvesWhenCached ==
    (HoverServed /\ lastOp.observed # <<>>) => HoverAsResolved

\* on line 1, x declared on line 2 (after the cursor) is found
C11_Witness ==
    /\ HoverServed /\ lastOp.observed = <<ProgFunction>>
    /\ \E w \in IdentifiersAt(OpText, lastOp.offset) :
          Slice(OpText, w[1], w[1] + w[2]) = N_x
    /\ LineOf(OpText, lastOp.offset) = 0
    /\ reply # <<>>

----------------------------------------------------------------------------
(* SpecSignature: one document, signature help over texts with calls *)

T_addCall == N_add \o <<"(", "1", ",", " ">>
T_memberCall == N_Window \o <<".">> \o N_create \o <<"(", "1", ",", "2", ",">>
T_propertyCall == N_x \o <<".">> \o N_a \o <<"(">>
T_nestedCall == N_add \o <<" ", "(">> \o N_x \o <<"(", "1", ",">>
T_lambdaCall == N_z \o <<"(", ",", ",">>
T_unknownCall == N_k \o <<".">> \o N_b \o <<"(", ",">>
T_noTarget == <<"(">> \o N_y \o <<",", " ", "(">>

STexts == {T_addCall, T_memberCall, T_propertyCall, T_nestedCall,
           T_lambdaCall, T_unknownCall, T_noTarget, N_print}
SPrograms == {ProgEmpty, ProgObject, ProgFunction, ProgImport}

NextSignature ==
    \/ \E text \in STexts, outcome \in ParseOutcomes(SPrograms, QMessages) :
          DidChangeContent(QDoc, text, outcome)
    \/ \E offset \in OffsetsOf(QDoc) : SignatureHelp(QDoc, offset)

SpecSignature == Init /\ [][NextSignature]_vars

----------------------------------------------------------------------------
(* Claims about signature help, checked under SpecSignature *)

SignatureServed ==
    lastOp.kind = "signatureHelp" /\ lastOp.uri \in DOMAIN documents

\* the 1-based place of the last "(" before the cursor, 0 if there is none
OpenParen ==
    LET at == {i \in 1..lastOp.offset : OpText[i] = "("}
    IN  IF at = {} THEN 0 ELSE CHOOSE i \in at : \A j \in at : j <= i

\* where the text before place p ends once its trailing blanks are dropped
TargetEnd(p) ==
    CHOOSE e \in 0..(p - 1) :
        /\ \A j \in (e + 1)..(p - 1) : OpText[j] \in SpaceChars
        /\ (e = 0 \/ OpText[e] \notin SpaceChars)

\* what the engine's lookup finds for a name: the first local of the cached
\* tree, else the catalog symbol; nothing without a cached tree
Lookup(word) ==
    IF lastOp.observed = <<>> THEN <<>> ELSE LocalThenGlobal(OpLocals, word)

\* the symbol of the call target that precedes place p: `member` or
\* `object.member`
TargetSymbol(p) ==
    LET e == TargetEnd(p)
        member == IdentifierEndingAt(OpText, e)
        dot == IF member = <<>> THEN 0 ELSE e - Len(member[1])
        object == IF dot >= 2 /\ OpText[dot] = "."
                  THEN IdentifierEndingAt(OpText, dot - 1) ELSE <<>>
    IN  IF member = <<>> THEN <<>>
        ELSE IF object = <<>> THEN Lookup(member[1])
        ELSE LET obj == Lookup(object[1])
                 named == IF obj = <<>> \/ obj[1].members = <<>> THEN {}
                          ELSE {i \in 1..Len(obj[1].members[1]) :
                                  obj[1].members[1][i].name = member[1]}
             IN  IF named = {} THEN <<>>
                 ELSE << obj[1].members[1][CHOOSE i \in named :
                                              \A j \in named : i <= j] >>

\* the text between the first "(" of a detail and the next ")"
ParenthesizedList(detail) ==
    LET open == CHOOSE i \in 1..Len(detail) :
                    detail[i] = "(" /\ \A j \in 1..(i - 1) : detail[j] # "("
        close == CHOOSE i \in (open + 1)..Len(detail) :
                    detail[i] = ")"
                    /\ \A j \in (open + 1)..(i - 1) : detail[j] # ")"
    IN  SubSeq(detail, open + 1, close - 1)

\* the labels a parenthesized list stands for: its comma-separated pieces
\* without the blanks around them, none for the empty list
LabelsOf(list) ==
    IF list = <<>> THEN <<>>
    ELSE [i \in 1..Len(Split(list, ",")) |-> Trim(Split(list, ",")[i])]

----------------------------------------------------------------------------
(* SpecOutline: one document, the outline over a family of trees built     *)
(* from a few statements nested up to two levels deep                      *)

\* an expression statement: a kind the extractor does not know
ExprStmt(line, column) ==
    [kind |-> "ExprStmt", line |-> line, column |-> column]

\* let z = fn(a) { let k = 1 }: the value is an expression with a body of
\* its own
LambdaWithBody ==
    [kind |-> "LambdaExpr", parameters |-> <<N_a>>,
     body |-> << VarDeclaration(N_k, FALSE, NumericLiteral, 9, 3) >>]

\* let x = {a: 1, b: {k: 2}}
LeafX == VarDeclaration(N_x, FALSE,
            ObjectLiteral(<< Property(N_a, NumericLiteral),
                             Property(N_b, ObjectLiteral(
                                 << Property(N_k, NumericLiteral) >>)) >>),
            1, 5)
\* const m = {}
LeafEmptyObject == VarDeclaration(N_m, TRUE, ObjectLiteral(<<>>), 10, 7)
LeafY == VarDeclaration(N_y, TRUE, ArrayLiteral, 2, 7)
LeafZ == VarDeclaration(N_z, FALSE, LambdaWithBody, 8, 5)
LeafImport == ImportDeclaration(<<N_m, N_k>>, N_lib, 3, 1)
LeafExpr == ExprStmt(4, 1)

Leaves == {LeafX, LeafEmptyObject, LeafY, LeafZ, LeafImport, LeafExpr}
Blocks1 == {<<>>, <<LeafX, LeafY>>} \cup {<<s>> : s \in Leaves}
Branches1 == {<<>>, <<LeafX>>, <<LeafImport>>}
Nested1 ==
    {FunctionDeclaration(N_add, <<N_a, N_b>>, b, 5, 1) : b \in Blocks1}
    \cup {WhileStatement(b, 6, 1) : b \in Blocks1}
    \cup {IfStatement(t, e, 7, 1) : t \in Branches1, e \in Branches1}
Blocks2 == {<<s>> : s \in Nested1}
Nested2 ==
    {FunctionDeclaration(N_c, <<N_c>>, b, 5, 1) : b \in Blocks2}
    \cup {WhileStatement(b, 6, 1) : b \in Blocks2}
    \cup {IfStatement(b, <<LeafY>>, 7, 1) : b \in Blocks2}
OutlinePrograms ==
    {Program(<<>>)}
    \cup {Program(<<s>>) : s \in Leaves \cup Nested1 \cup Nested2}
    \cup {Program(<<s, t>>) : s \in Nested1, t \in {LeafX, LeafImport}}

NextOutline ==
    \/ \E outcome \in ParseOutcomes(OutlinePrograms, QMessages) :
          DidChangeContent(QDoc, N_x, outcome)
    \/ DocumentSymbol(QDoc)

SpecOutline == Init /\ [][NextOutline]_vars

----------------------------------------------------------------------------
(* Claims about the extractor and the outline, checked under SpecOutline *)

OutlineServed == lastOp.kind = "documentSymbol" /\ lastOp.observed # <<>>

\* the statement sequences nested in a statement, in slot order
NestedSequences(stmt) ==
    (IF "body" \in DOMAIN stmt THEN <<stmt.body>> ELSE <<>>)
    \o (IF "thenBranch" \in DOMAIN stmt THEN <<stmt.thenBranch>> ELSE <<>>)
    \o (IF "elseBranch" \in DOMAIN stmt THEN <<stmt.elseBranch>> ELSE <<>>)

\* the names a statement declares by itself
DeclaredBy(stmt) ==
    IF stmt.kind = "VarDeclaration" THEN <<stmt.identifier>>
    ELSE IF stmt.kind = "FunctionDeclaration"
    THEN <<stmt.name>> \o stmt.parameters
    ELSE IF stmt.kind = "ImportDeclaration" THEN stmt.specifiers
    ELSE <<>>

\* the declared names of a statement sequence in pre-order: a statement
\* before the sequences nested in it, these before the next statement
RECURSIVE DeclaredNames(_)
DeclaredNames(stmts) ==
    IF stmts = <<>> THEN <<>>
    ELSE LET stmt == Head(stmts)
             nested == NestedSequences(stmt)
             RECURSIVE inside(_)
             inside(k) ==
                IF k > Len(nested) THEN <<>>
                ELSE DeclaredNames(nested[k]) \o inside(k + 1)
         IN  DeclaredBy(stmt) \o inside(1) \o DeclaredNames(Tail(stmts))

\* the number of declarations of a statement sequence, every nested
\* sequence counted once
RECURSIVE DeclarationCount(_)
DeclarationCount(stmts) ==
    IF stmts = <<>> THEN 0
    ELSE LET stmt == Head(stmts)
             nested == NestedSequences(stmt)
             RECURSIVE inside(_)
             inside(k) ==
                IF k > Len(nested) THEN 0
                ELSE DeclarationCount(nested[k]) + inside(k + 1)
         IN  Len(DeclaredBy(stmt)) + inside(1) + DeclarationCount(Tail(stmts))

RECURSIVE StatementSites(_, _)
StatementSites(stmts, base) ==
    IF stmts = <<>> THEN {}
    ELSE LET stmt == Head(stmts)
             own == Len(DeclaredBy(stmt))
             nested == NestedSequences(stmt)
             RECURSIVE before(_)
             before(k) ==
                IF k <= 1 THEN 0
                ELSE before(k - 1) + DeclarationCount(nested[k - 1])
         IN  {<<base + 1, stmt>>}
             \cup UNION {StatementSites(nested[k], base + own + before(k)) :
                           k \in 1..Len(nested)}
             \cup StatementSites(Tail(stmts),
                                 base + own + before(Len(nested) + 1))

\* the function declarations among them
FunctionSites(stmts, base) ==
    {site \in StatementSites(stmts, base) :
        site[2].kind = "FunctionDeclaration"}

\* the symbols and the outline entries of the function declared at place i:
\* the function, then its parameters with the given kind at the function's
\* own position, then what its body declares
FunctionThenParameters(i, f, parameterKind) ==
    LET n == Len(f.parameters)
        inBody == DeclaredNames(f.body)
    IN  /\ Len(OpLocals) >= i + n + Len(inBody)
        /\ OpLocals[i].name = f.name /\ OpLocals[i].kind = "Function"
        /\ reply[i].name = f.name /\ reply[i].kind = "Function"
        /\ \A k \in 1..n :
              /\ OpLocals[i + k].name = f.parameters[k]
              /\ OpLocals[i + k].kind = parameterKind
              /\ OpLocals[i + k].line = f.line
              /\ OpLocals[i + k].column = f.column
              /\ reply[i + k].name = f.parameters[k]
              /\ reply[i + k].range.start =
                    [line |-> f.line - 1, character |-> f.column - 1]
        /\ \A k \in 1..Len(inBody) :
              /\ OpLocals[i + n + k].name = inBody[k]
              /\ reply[i + n + k].name = inBody[k]

\* C14 (as claimed): every function declaration gives a Function symbol,
\* right after it one symbol of kind Parameter per parameter at the
\* function's line and column, then the symbols of its body.
C14_FunctionThenParameterKind ==
    OutlineServed =>
        \A site \in FunctionSites(lastOp.observed[1].body, 0) :
            FunctionThenParameters(site[1], site[2], "Parameter")

\* C14 (amended): the same with the parameters' symbols being of kind
\* Variable, told apart by their detail `(parameter of f)`, and shown as
\* variables in the outline.
C14_FunctionThenParameters ==
    OutlineServed =>
        \A site \in FunctionSites(lastOp.observed[1].body, 0) :
            /\ FunctionThenParameters(site[1], site[2], "Variable")
            /\ \A k \in 1..Len(site[2].parameters) :
                  /\ OpLocals[site[1] + k].detail =
                        S_parameterOf \o site[2].name \o S_close
                  /\ reply[site[1] + k].kind = "Variable"

\* fn add(a, b) with x and y in its body, inside a while statement: add, a,
\* b, x, y
C14_Witness ==
    /\ OutlineServed
    /\ <<1, FunctionDeclaration(N_add, <<N_a, N_b>>, <<LeafX, LeafY>>, 5, 1)>>
          \in FunctionSites(lastOp.observed[1].body, 0)
    /\ lastOp.observed[1].body[1].kind = "WhileStatement"
    /\ [i \in 1..Len(reply) |-> reply[i].name] = <<N_add, N_a, N_b, N_x, N_y>>
    /\ reply[1].kind = "Function"

\* the members of a symbol, none when it has no member list
MembersOf(symbol) == IF symbol.members = <<>> THEN <<>> ELSE symbol.members[1]

\* C15: a declaration `x = {k1: .., .., kn: ..}` gives one symbol, named x,
\* whose members are n Property entries k1..kn in this order, the keys of
\* nested objects not among them; the keys get no symbols of their own: the
\* symbols of the tree are its declarations only.
C15_ObjectMembers ==
    OutlineServed =>
        /\ [i \in 1..Len(OpLocals) |-> OpLocals[i].name]
              = DeclaredNames(lastOp.observed[1].body)
        /\ \A site \in StatementSites(lastOp.observed[1].body, 0) :
              LET i == site[1]
                  v == site[2]
              IN  (/\ v.kind = "VarDeclaration"
                   /\ "value" \in DOMAIN v
                   /\ v.value.kind = "ObjectLiteral") =>
                    LET keys == v.value.properties
                        members == MembersOf(OpLocals[i])
                    IN  /\ OpLocals[i].name = v.identifier
                        /\ OpLocals[i].kind =
                              (IF v.constant THEN "Constant" ELSE "Variable")
                        /\ Len(members) = Len(keys)
                        /\ \A k \in 1..Len(keys) :
                              /\ members[k].name = keys[k].key
                              /\ members[k].kind = "Property"

\* let x = {a: 1, b: {k: 2}} in a function body: x has the members a and b,
\* k is neither a member nor a symbol
C15_Witness ==
    /\ OutlineServed
    /\ lastOp.observed[1] =
          Program(<< FunctionDeclaration(N_add, <<N_a, N_b>>, <<LeafX>>, 5, 1) >>)
    /\ Len(OpLocals) = 4
    /\ OpLocals[4].name = N_x /\ OpLocals[4].kind = "Variable"
    /\ [k \in 1..Len(MembersOf(OpLocals[4])) |-> MembersOf(OpLocals[4])[k].name]
          = <<N_a, N_b>>
    /\ [i \in 1..Len(reply) |-> reply[i].name] = <<N_add, N_a, N_b, N_x>>

----------------------------------------------------------------------------
(* Completion inside a line comment, checked under SpecQuery *)

\* C16: completion answers with the empty list whenever `//` occurs between
\* the start of the cursor's line and the cursor, whatever is cached and
\* whatever precedes the cursor.
C16_NoCompletionInComment ==
    (CompletionServed /\ OpInComment) => reply = <<>>

\* after `//Window.`, with a tree cached: nothing, although Window has
\* members
C16_Witness ==
    /\ CompletionServed /\ OpInComment
    /\ OpText = S_slashes \o N_Window \o <<".">>
    /\ lastOp.offset = Len(OpText)
    /\ lastOp.observed = <<ProgObject>>
    /\ OpMembers # <<>>
    /\ reply = <<>>

----------------------------------------------------------------------------
(* SpecLines: the formatter over texts made of whole lines *)

L_stmt == <<"x">>
L_openTail == <<"x", "{">>
L_closeOpen == <<"}", "x", "{">>
L_done == <<"x", ";">>
L_comma == <<"x", ",">>
L_property == <<"a", ":", "b">>
L_import == K_import \o <<":">>
L_function == S_fn \o <<"f">>
L_comment == S_slashes \o <<"c">>
L_emptyBlock == <<"{", "}">>
L_padded == <<" ", "x", " ">>
T_ifPrint == <<"i", "f", "(", "x", ")", "{">> \o N_print \o <<"(", "x", ")", "}">>

\* lines that open and close blocks, and the other kinds of line
IndentLines == {<<>>, L_stmt, <<"{">>, <<"}">>, <<"[">>, <<"]">>, L_closeOpen}
StatementLines ==
    IndentLines
    \cup {L_openTail, L_done, L_comma, L_property, L_import, K_if, K_else,
          K_while, L_function, K_fn, L_comment, L_emptyBlock, L_padded}

MaxLines == 3
LinesOver(samples, n) == [1..n -> samples]
LineTexts ==
    {Join(ls, <<"\n">>) :
        ls \in UNION {LinesOver(IndentLines, n) : n \in 1..MaxLines}}
    \cup {Join(ls, <<"\n">>) :
            ls \in UNION {LinesOver(StatementLines, n) : n \in 1..(MaxLines - 1)}}
    \cup {T_ifPrint}
LTabSizes == {0, 2, 4}

InitLines ==
    /\ documents \in {(FmtDoc :> t) : t \in LineTexts}
    /\ astCache = EmptyMap
    /\ published = EmptyMap
    /\ sent = <<>>
    /\ lastOp = [kind |-> "init", uri |-> "", offset |-> 0]
    /\ reply = <<>>
    /\ lastGood = EmptyMap
    /\ HostActivated

NextLines ==
    \/ \E tabSize \in LTabSizes : DocumentFormatting(FmtDoc, tabSize)
    \/ \E outcome \in ParseOutcomes({ProgEmpty}, {}) :
          ApplyFormatting(FmtDoc, outcome)

SpecLines == InitLines /\ [][NextLines]_vars

----------------------------------------------------------------------------
(* Claims about the formatter's line loop, checked under SpecLines *)

FormattingServed ==
    lastOp.kind = "formatting" /\ lastOp.uri \in DOMAIN documents

\* the lines the loop iterates over, and those of them that are not blank,
\* trimmed
LoopLines == SplitLines(ExpandClose(ExpandOpen(OpText)))
IsNonBlank(line) == line # <<>>
NonBlankLines ==
    SelectSeq([i \in 1..Len(LoopLines) |-> Trim(LoopLines[i])], IsNonBlank)

\* the lines of the new text that are not blank
EmittedLines == SelectSeq(Split(reply[1].newText, "\n"), IsNonBlank)

Closes(line) == line[1] \in {"}", "]"}
Opens(line) == line[Len(line)] \in {"{", "["}

\* the level the k-th non-blank line is emitted at, and the level after it:
\* one less (not below 0) for a line that starts with a closer, one more
\* after a line that ends with an opener
RECURSIVE LevelAfter(_, _)
LevelAt(lines, k) ==
    LET before == IF k = 1 THEN 0 ELSE LevelAfter(lines, k - 1)
    IN  IF Closes(lines[k]) THEN Max(0, before - 1) ELSE before
LevelAfter(lines, k) ==
    LevelAt(lines, k) + (IF Opens(lines[k]) THEN 1 ELSE 0)

\* the loop's indentLevel after its first k lines
IndentLevelAfter(k) ==
    FormatLines([formattedLines |-> <<>>, indentLevel |-> 0],
                SubSeq(LoopLines, 1, k), 1).indentLevel

\* the indent level is never negative and every non-blank line is emitted
\* behind level * size blanks
IndentedBy(size) ==
    /\ \A k \in 0..Len(LoopLines) : IndentLevelAfter(k) >= 0
    /\ Len(EmittedLines) = Len(NonBlankLines)
    /\ \A k \in 1..Len(NonBlankLines) :
          RunFrom(EmittedLines[k], 0, {" "}) = LevelAt(NonBlankLines, k) * size

\* C17 (as claimed): the indent level never goes below 0; a line that
\* starts with a closer is emitted one level lower, a line that ends with
\* an opener raises the level of the lines after it, and every non-blank
\* line starts with exactly level * tabSize blanks.
C17_IndentByTabSize == FormattingServed => IndentedBy(lastOp.tabSize)

\* C17 (amended): the same with level * 4 blanks when the tabSize of the
\* request is 0.
C17_Indent ==
    FormattingServed =>
        IndentedBy(IF lastOp.tabSize = 0 THEN 4 ELSE lastOp.tabSize)

\* more closers than openers: `}`, `{`, `x` gives `}`, `{` and x one level in
C17_Witness ==
    /\ FormattingServed /\ lastOp.tabSize = 2
    /\ OpText = <<"}", "\n", "{", "\n", "x">>
    /\ reply[1].newText = <<"}", "\n", "{", "\n", " ", " ", "x", ";">>

\* whether a trimmed, non-blank line is one of those that get no ";": it
\* ends with ";" or ",", opens a block, closes one or ends with "}", starts
\* with if, while or else, starts with "fn ", starts with "//", or holds a
\* ":" without starting with import
KeepsItsEnd(line) ==
    LET last == line[Len(line)]
        Begins(word) == Len(line) >= Len(word) /\ SubSeq(line, 1, Len(word)) = word
    IN  \/ last \in {";", ","}
        \/ last \in {"{", "["}
        \/ line[1] \in {"}", "]"} \/ last = "}"
        \/ Begins(K_if) \/ Begins(K_while) \/ Begins(K_else)
        \/ Begins(S_fn)
        \/ Begins(S_slashes)
        \/ ((\E i \in 1..Len(line) : line[i] = ":") /\ ~Begins(K_import))

\* `if (x) {`, `    print(x);`, `}`
T_ifPrintFormatted ==
    <<"i", "f", " ", "(", "x", ")", " ", "{", "\n",
      " ", " ", " ", " ">> \o N_print \o <<"(", "x", ")", ";", "\n", "}">>

\* C18: a non-blank line is emitted with ";" appended exactly when it is
\* none of the lines that keep their end; `if(x){print(x)}` formatted with
\* tabSize 4 is `if (x) {`, `    print(x);`, `}`.
C18_Semicolons ==
    FormattingServed =>
        /\ Len(EmittedLines) = Len(NonBlankLines)
        /\ \A k \in 1..Len(NonBlankLines) :
              LET line == NonBlankLines[k]
              IN  Trim(EmittedLines[k]) =
                     Polish(IF KeepsItsEnd(line) THEN line
                            ELSE line \o <<";">>)
        /\ (OpText = T_ifPrint /\ lastOp.tabSize = 4)
              => reply[1].newText = T_ifPrintFormatted

\* the example of the claim
C18_Witness ==
    /\ FormattingServed /\ OpText = T_ifPrint /\ lastOp.tabSize = 4
    /\ reply[1].newText = T_ifPrintFormatted

----------------------------------------------------------------------------
(* SpecRun: the extension host, two overlapping invocations of the command *)

\* the content-lengths of the archive: an invalid one and a valid one
RunSizes == {0, 1}

\* the config with the keys that have a value
ConfigOf(version, latestAvailableTag, runner) ==
    LET all == [version |-> version,
                latestAvailableTag |-> latestAvailableTag,
                runner |-> runner]
    IN  [k \in {key \in DOMAIN all : all[key] # ""} |-> all[k]]

\* what an earlier session can have left in cursorx-config.json
Configs ==
    {ConfigOf(version, tag, runner) :
        version \in {"", "v1"}, tag \in {""} \cup Tags,
        runner \in {""} \cup Paths}

InitRun ==
    /\ documents = EmptyMap
    /\ astCache = EmptyMap
    /\ published = EmptyMap
    /\ sent = <<>>
    /\ lastOp = [kind |-> "init", uri |-> "", offset |-> 0]
    /\ reply = <<>>
    /\ lastGood = EmptyMap
    /\ platform \in Platforms
    /\ storage \in {[exeAt |-> exeAt, zip |-> FALSE, config |-> config] :
                       exeAt \in SUBSET Paths, config \in Configs}
    /\ runs = [r \in Runs |-> IdleRun]
    /\ terminal = <<>>
    /\ tagSync = "pending"

NextRun ==
    \/ \E latestRelease \in {<<>>} \cup {<<tag>> : tag \in Tags} :
          SyncLatestTag(latestRelease)
    \/ \E r \in Runs, activeEditor \in Editors :
          \E found \in findFileRecursively(storage.exeAt) :
             RunFile(r, activeEditor, found)
    \/ \E r \in Runs, metadata \in MetadataOutcomes(RunSizes),
          extraction \in Extractions :
          \E found \in findFileRecursively(storage.exeAt
                                           \cup extraction.adds) :
             Metadata(r, metadata, extraction, found)
    \/ \E r \in Runs, allEnded \in BOOLEAN, extraction \in Extractions :
          \E found \in findFileRecursively(storage.exeAt
                                           \cup extraction.adds) :
             Chunks(r, allEnded, extraction, found)

SpecRun == InitRun /\ [][NextRun]_vars

----------------------------------------------------------------------------
(* Claims about the run-file command, checked under SpecRun *)

\* the step in which invocation r resumes after its download and ends
Resumes(r) ==
    runs[r].pc \in {"metadata", "chunks"} /\ runs'[r].pc = "done"

\* the launch command of invocation r is the text the step sends
LaunchSent(r) ==
    terminal' = Append(terminal, [exePath |-> runs[r].exePath,
                                  filePath |-> runs[r].filePath[1]])

\* C19: an invocation that found no binary and whose download failed, or
\* whose extraction failed, sends nothing to the terminal; one that found a
\* binary and only had to update, and whose download failed, sends the
\* launch command of the binary it found, which is installed, and leaves
\* the recorded version as it was.
C19_RunAfterFailedDownload ==
    [][\A r \in Runs :
          Resumes(r) =>
             LET downloadFailed == runs'[r].success = <<FALSE>>
                 extractionFailed == runs'[r].outcome = "extractFailed"
             IN  /\ (runs[r].needsInitialDownload
                       /\ (downloadFailed \/ extractionFailed))
                       => terminal' = terminal
                 /\ (~runs[r].needsInitialDownload /\ runs[r].needsUpdate
                       /\ downloadFailed)
                       => /\ LaunchSent(r)
                          /\ ExistsSync(storage.exeAt, runs[r].exePath)
                          /\ Field(getConfig(storage'), "version")
                               = Field(getConfig(storage), "version")]_vars

\* both cases have happened: one invocation gave up after a failed first
\* download, the other launched the installed binary after a failed update
\* and the version on record is still the older one
C19_Witness ==
    \E r, q \in Runs :
        /\ runs[r].pc = "done" /\ runs[r].needsInitialDownload
        /\ runs[r].success = <<FALSE>> /\ runs[r].outcome = "downloadFailed"
        /\ runs[q].pc = "done" /\ ~runs[q].needsInitialDownload
        /\ runs[q].needsUpdate /\ runs[q].success = <<FALSE>>
        /\ runs[q].outcome = "launched"
        /\ terminal # <<>>
        /\ terminal[Len(terminal)].exePath = runs[q].exePath
        /\ Field(getConfig(storage), "version") # runs[q].latestVersion

----------------------------------------------------------------------------
(* SpecDownload: one invocation, the archive of every small size *)

\* largest content-length of the archive
MaxTotalSize == 10

DRun == "r1"

NextDownload ==
    \/ \E latestRelease \in {<<>>} \cup {<<tag>> : tag \in Tags} :
          SyncLatestTag(latestRelease)
    \/ \E activeEditor \in Editors :
          \E found \in findFileRecursively(storage.exeAt) :
             RunFile(DRun, activeEditor, found)
    \/ \E metadata \in MetadataOutcomes(0..MaxTotalSize),
          extraction \in Extractions :
          \E found \in findFileRecursively(storage.exeAt
                                           \cup extraction.adds) :
             Metadata(DRun, metadata, extraction, found)
    \/ \E allEnded \in BOOLEAN, extraction \in Extractions :
          \E found \in findFileRecursively(storage.exeAt
                                           \cup extraction.adds) :
             Chunks(DRun, allEnded, extraction, found)

SpecDownload == InitRun /\ [][NextDownload]_vars

----------------------------------------------------------------------------
(* Claims about the chunk requests, checked under SpecDownload *)

\* the chunk requests of the invocation are in flight
Downloading == runs[DRun].pc = "chunks"

\* the requests that ask for byte b
Asking(ranges, b) ==
    {k \in DOMAIN ranges : ranges[k].start <= b /\ b <= ranges[k].end}

\* the ranges are non-empty, inside [0, totalSize - 1], pairwise disjoint,
\* and every byte of the file is asked for exactly once
Partition(ranges, totalSize) ==
    /\ \A k \in DOMAIN ranges :
          /\ ranges[k].start <= ranges[k].end
          /\ 0 <= ranges[k].start
          /\ ranges[k].end <= totalSize - 1
    /\ \A j, k \in DOMAIN ranges :
          j # k => \/ ranges[j].end < ranges[k].start
                   \/ ranges[k].end < ranges[j].start
    /\ \A b \in 0..(totalSize - 1) : Cardinality(Asking(ranges, b)) = 1

\* C20 (as claimed): for every positive total size the 4 ranges of the
\* chunk requests are non-empty, pairwise disjoint, within
\* [0, totalSize - 1], and cover every byte exactly once
C20_RangesPartition ==
    Downloading =>
        /\ Len(runs[DRun].ranges) = CONCURRENT_CONNECTIONS
        /\ Partition(runs[DRun].ranges, runs[DRun].totalSize)

\* the last request starts inside the file
LastChunkStartsInside(totalSize) ==
    (CONCURRENT_CONNECTIONS - 1) * Ceil(totalSize, CONCURRENT_CONNECTIONS)
        <= totalSize - 1

\* the ranges are a partition exactly for the sizes whose last request
\* starts inside the file (4, 7, 8 and every size from 10 on)
C20_RangesPartitionWhenLastInside ==
    Downloading =>
        /\ Len(runs[DRun].ranges) = CONCURRENT_CONNECTIONS
        /\ Partition(runs[DRun].ranges, runs[DRun].totalSize)
              <=> LastChunkStartsInside(runs[DRun].totalSize)

\* a download of 9 bytes: the requests are 0-2, 3-5, 6-8 and 9-8
C20_Witness ==
    /\ Downloading /\ runs[DRun].totalSize = 9
    /\ runs[DRun].ranges[4] = [start |-> 9, end |-> 8]

====
